---------------------------- MODULE Spec2Model ----------------------------
(***************************************************************************)
(* A model of the gzip decompressor: the bit reader (bit_reader.rs), the   *)
(* tracking writer (tracking_writer.rs), the gzip member parser (gzip.rs), *)
(* the DEFLATE block reader (deflate.rs), the Huffman coding               *)
(* (huffman_coding.rs) and the driver (lib.rs).                            *)
(*                                                                         *)
(* Bytes are naturals 0..255, u16 values naturals 0..65535.  A u32 is kept  *)
(* as its two 16-bit halves, or as its 4 little-endian bytes.              *)
(*                                                                         *)
(* The specifications share the variables:                                 *)
(*   SpecBits     a BitReader over a byte stream, driven by read_bits;      *)
(*   SpecWriter   a TrackingWriter over a sink, driven by write, flush and  *)
(*                write_previous;                                           *)
(*   Spec         decompress over a whole input stream;                     *)
(*   SpecLength   the byte count of one member and its trailer check;       *)
(*   SpecBoundary read_bits followed by borrow_reader_from_boundary;        *)
(*   SpecHuffman  from_lengths followed by read_symbol;                     *)
(*   SpecTrees    decode_litlen_distance_trees on dynamic block headers.    *)
(***************************************************************************)
EXTENDS Integers, Sequences, FiniteSets, TLC

VARIABLES
    input,            \* the byte source: every byte it will ever deliver
    pos,              \* how many bytes of input have been consumed
    bit_seq,          \* BitReader.bit_seq, the residual bits
    overflow_checks,  \* the build: TRUE panics on arithmetic overflow, FALSE wraps
    tw,               \* the TrackingWriter: inner, history, byte_count, crc32
    mark,             \* ghost: Len(tw.inner) at the last flush (or construction)
    pc,               \* decompress: the statement about to run
    result,           \* "running", "ok", "panic" or the error message
    member,           \* decompress: the locals of the member being decoded
    last,             \* ghost: the last operation, its arguments and its outcome
    log               \* ghost: one record per trailer that was validated

vars == <<input, pos, bit_seq, overflow_checks, tw, mark, pc, result, member, last, log>>

----------------------------------------------------------------------------
(* Bounds of the model.                                                    *)

\* The longest byte stream handed to a BitReader in SpecBits.
MaxStreamLen == 3

\* The window of a TrackingWriter.  The program's HISTORY_SIZE is 32768
\* (tracking_writer.rs:11); the model keeps every use of it and scales its value,
\* so that a full window, and a byte count beyond it, are reached.
HISTORY_SIZE == 3

\* SpecWriter: the capacity of the sink, as the fixed slice of the unit tests.
SinkCap == 4

\* SpecWriter: the longest buffer handed to write, the longest copy asked of
\* write_previous.
MaxBuf == 2
MaxCopy == 3

----------------------------------------------------------------------------
(* Machine arithmetic.                                                     *)

Min(a, b) == IF a < b THEN a ELSE b
Max(a, b) == IF a > b THEN a ELSE b

\* x >> n and x << n on u16, for a shift amount the type allows (n < 16).
Shr(x, n) == x \div (2 ^ n)
Shl16(x, n) == (x * (2 ^ n)) % 65536

\* Bit i of x.
BitAt(x, i) == (x \div (2 ^ i)) % 2

RECURSIVE OrBits(_, _, _)
OrBits(a, b, i) ==
    IF i = 0 THEN 0
    ELSE Max(a % 2, b % 2) + 2 * OrBits(a \div 2, b \div 2, i - 1)

\* a | b on u16.
BitOr16(a, b) == OrBits(a, b, 16)

\* The last n elements of s (all of s when it has fewer).
LastN(s, n) == SubSeq(s, Len(s) - Min(n, Len(s)) + 1, Len(s))

\* The first n elements of s.
FirstN(s, n) == SubSeq(s, 1, n)

----------------------------------------------------------------------------
(* bit_reader.rs                                                           *)

\* BitSequence::new; len >= 17 is std::unreachable!() and never requested here.
BitSequence(bits, len) ==
    [bits |-> IF len = 0 \/ len >= 16 THEN bits ELSE bits % (2 ^ len),
     len  |-> len]

\* BitSequence::concat, its assert!(self.len + other.len <= 16) checked by the caller.
concat(self, other) ==
    BitSequence(BitOr16(self.bits, Shl16(other.bits, self.len)), self.len + other.len)

\* u16::from_le_bytes of the 1 or 2 bytes read into the zeroed temp_bytes.
TempBytes(stream, at, temp_size) ==
    stream[at + 1] + (IF temp_size = 2 THEN 256 * stream[at + 2] ELSE 0)

\* BitReader::read_bits on the reader (stream, at, seq): the outcome st, the value
\* returned, and the reader's new residual bits and position.  A read_exact that
\* fails leaves bit_seq alone and has consumed what was left of the stream.
\* With vital_len = 16 the shift byte >> vital_len overflows: a build with
\* overflow checks panics there, one without shifts by 16 mod 16 = 0.
read_bits(stream, at, seq, len, checks) ==
    IF len > 16 THEN
        [st |-> "panic", val |-> BitSequence(0, 0), bit_seq |-> seq, pos |-> at]
    ELSE IF seq.len >= len THEN
        [st |-> "ok",
         val |-> BitSequence(seq.bits % (2 ^ len), len),
         bit_seq |-> [bits |-> Shr(seq.bits, len), len |-> seq.len - len],
         pos |-> at]
    ELSE
        LET vital_len == len - seq.len
            temp_size == IF vital_len > 8 THEN 2 ELSE 1
        IN  IF Len(stream) - at < temp_size THEN
                [st |-> "eof", val |-> BitSequence(0, 0), bit_seq |-> seq,
                 pos |-> Len(stream)]
            ELSE
                LET byte == TempBytes(stream, at, temp_size)
                    rest == BitSequence(byte, vital_len)
                    new_len == 8 * temp_size - vital_len
                    shifted == IF vital_len = 16 THEN byte ELSE Shr(byte, vital_len)
                    new_buf == BitSequence(shifted, new_len)
                IN  IF vital_len = 16 /\ checks THEN
                        [st |-> "panic", val |-> BitSequence(0, 0), bit_seq |-> seq,
                         pos |-> at + temp_size]
                    ELSE
                        [st |-> "ok", val |-> concat(seq, rest), bit_seq |-> new_buf,
                         pos |-> at + temp_size]

\* borrow_reader_from_boundary with the residual bits left in the reader.
borrow_keeps_residual == bit_seq

\* BitReader::borrow_reader_from_boundary: the residual bits are dropped.
borrow_reader_from_boundary == BitSequence(0, 0)

----------------------------------------------------------------------------
(* CRC-32/ISO-HDLC: the Crc and Digest that tracking_writer.rs and gzip.rs  *)
(* take from the crc crate.  The 32-bit register is kept as its two 16-bit *)
(* halves; the algorithm is reflected, so a byte enters at the low bits    *)
(* and the register shifts right.                                          *)

RECURSIVE XorBits(_, _, _)
XorBits(a, b, i) ==
    IF i = 0 THEN 0
    ELSE ((a + b) % 2) + 2 * XorBits(a \div 2, b \div 2, i - 1)

\* a ^ b for a, b in 0..15, tabulated: NibbleXor[a + 1][b + 1].
RECURSIVE XorRow(_, _)
XorRow(a, b) == IF b = 16 THEN <<>> ELSE <<XorBits(a, b, 4)>> \o XorRow(a, b + 1)

RECURSIVE XorRows(_)
XorRows(a) == IF a = 16 THEN <<>> ELSE <<XorRow(a, 0)>> \o XorRows(a + 1)

NibbleXor == XorRows(0)

Nibble(x, k) == (x \div (16 ^ k)) % 16

\* a ^ b on u16, four bits at a time.
Xor16(a, b) ==
    NibbleXor[Nibble(a, 0) + 1][Nibble(b, 0) + 1]
      + 16 * NibbleXor[Nibble(a, 1) + 1][Nibble(b, 1) + 1]
      + 256 * NibbleXor[Nibble(a, 2) + 1][Nibble(b, 2) + 1]
      + 4096 * NibbleXor[Nibble(a, 3) + 1][Nibble(b, 3) + 1]

\* The reflected polynomial 0xEDB88320.
Poly == [hi |-> 60856, lo |-> 33568]

\* Crc::digest(): the initial register 0xFFFFFFFF.
digest == [hi |-> 65535, lo |-> 65535]

\* One bit of the division: shift right, and xor the polynomial in when a 1 left.
CrcShift(reg) ==
    LET hi == reg.hi \div 2
        lo == (reg.lo \div 2) + 32768 * (reg.hi % 2)
    IN  IF reg.lo % 2 = 1
        THEN [hi |-> Xor16(hi, Poly.hi), lo |-> Xor16(lo, Poly.lo)]
        ELSE [hi |-> hi, lo |-> lo]

\* n bits of the division.  (The tests next.lo >= 0, here and below, are always
\* true: they make TLC compute each register before it goes on.)
RECURSIVE CrcShifts(_, _)
CrcShiftsOn(next, n) == IF next.lo >= 0 THEN CrcShifts(next, n) ELSE next
CrcShifts(reg, n) == IF n = 0 THEN reg ELSE CrcShiftsOn(CrcShift(reg), n - 1)

\* The table of the byte-wise algorithm: entry b is the register 0x000000bb after
\* its 8 shifts, kept as CrcTable[b \div 16 + 1][b % 16 + 1].
RECURSIVE CrcTableRow(_, _)
CrcTableRow(high, low) ==
    IF low = 16 THEN <<>>
    ELSE <<CrcShifts([hi |-> 0, lo |-> 16 * high + low], 8)>> \o CrcTableRow(high, low + 1)

RECURSIVE CrcTableRows(_)
CrcTableRows(high) ==
    IF high = 16 THEN <<>> ELSE <<CrcTableRow(high, 0)>> \o CrcTableRows(high + 1)

CrcTable == CrcTableRows(0)

\* One byte: table[(register ^ byte) & 0xFF] ^ (register >> 8).
CrcTableEntry(index) == CrcTable[(index \div 16) + 1][(index % 16) + 1]
CrcByteWith(reg, entry) ==
    [hi |-> Xor16(reg.hi \div 256, entry.hi),
     lo |-> Xor16((reg.lo \div 256) + 256 * (reg.hi % 256), entry.lo)]
CrcByte(reg, byte) == CrcByteWith(reg, CrcTableEntry(Xor16(reg.lo % 256, byte)))

\* Digest::update(bytes)
RECURSIVE update(_, _)
update_on(next, bytes) == IF next.lo >= 0 THEN update(next, bytes) ELSE next
update(reg, bytes) ==
    IF bytes = <<>> THEN reg ELSE update_on(CrcByte(reg, Head(bytes)), Tail(bytes))

\* Digest::finalize(): the register xor 0xFFFFFFFF, here as its 4 little-endian bytes
\* (two u32 are equal exactly when their little-endian bytes are).
finalize(reg) ==
    LET hi == 65535 - reg.hi
        lo == 65535 - reg.lo
    IN  <<lo % 256, lo \div 256, hi % 256, hi \div 256>>

----------------------------------------------------------------------------
(* tracking_writer.rs.  tw.inner is the sink, as the bytes it has accepted. *)

\* TrackingWriter::new.
TrackingWriter(inner) ==
    [inner |-> inner, history |-> <<>>, byte_count |-> 0, crc32 |-> digest]

\* The loop of write over buf[..written]: the oldest byte leaves a full window.
RECURSIVE PushHistory(_, _)
PushHistory(history, bytes) ==
    IF bytes = <<>> THEN history
    ELSE PushHistory(
            Append(IF Len(history) >= HISTORY_SIZE THEN Tail(history) ELSE history,
                   Head(bytes)),
            Tail(bytes))

\* write with the bookkeeping done over the whole of buf, not over buf[..written].
write_counts_offered(self, buf, written) ==
    IF written < 0 THEN [ret |-> -1, tw |-> self]
    ELSE [ret |-> written,
          tw |-> [inner |-> self.inner \o FirstN(buf, written),
                  history |-> PushHistory(self.history, buf),
                  byte_count |-> self.byte_count + Len(buf),
                  crc32 |-> update(self.crc32, buf)]]

\* Write::write for TrackingWriter, the sink accepting `written` bytes of buf
\* (written = -1: inner.write returned Err, and `?` leaves before any update).
\* ret is the Ok value, -1 for Err.
write(self, buf, written) ==
    IF written < 0 THEN [ret |-> -1, tw |-> self]
    ELSE [ret |-> written,
          tw |-> [inner |-> self.inner \o FirstN(buf, written),
                  history |-> PushHistory(self.history, FirstN(buf, written)),
                  byte_count |-> self.byte_count + written,
                  crc32 |-> update(self.crc32, FirstN(buf, written))]]

\* flush with the window left as it is.
flush_keeps_window(self) ==
    [inner |-> self.inner, history |-> self.history, byte_count |-> 0, crc32 |-> digest]

\* Write::flush for TrackingWriter (the sink's own flush succeeds).
flush(self) ==
    [inner |-> self.inner, history |-> <<>>, byte_count |-> 0, crc32 |-> digest]

\* The copy loop of write_previous: `left` bytes still to push, ind the index
\* (from 0) of the next one in data.  An index beyond data panics: <<-1>>.
RECURSIVE CopyLoop(_, _, _, _, _, _)
CopyLoop(data, start, len, ind, left, acc) ==
    IF left = 0 THEN acc
    ELSE IF ind >= Len(data) THEN <<-1>>
    ELSE CopyLoop(data, start, len,
                  IF ind = Min(Len(data), start + len) - 1 THEN start ELSE ind + 1,
                  left - 1, Append(acc, data[ind + 1]))

\* The messages of the two ensure! on the distance.
DistanceErrors == {"dist is out of border", "dist must be less"}

\* write_previous with the second ensure! (dist < HISTORY_SIZE) made after the copy
\* has been written.
write_previous_checks_late(self, dist, len, written) ==
    IF ~(dist <= Len(self.history)) THEN [st |-> "dist is out of border", tw |-> self]
    ELSE
        LET start == Len(self.history) - dist
            copied == CopyLoop(self.history, start, len, start, len, <<>>)
        IN  IF copied = <<-1>> THEN [st |-> "panic", tw |-> self]
            ELSE LET w == write(self, copied, Min(written, Len(copied)))
                 IN  IF ~(dist < HISTORY_SIZE) THEN [st |-> "dist must be less", tw |-> w.tw]
                     ELSE IF w.ret < 0 THEN [st |-> "io error", tw |-> w.tw]
                     ELSE IF w.ret # len THEN [st |-> "could not write fully", tw |-> w.tw]
                     ELSE [st |-> "ok", tw |-> w.tw]

\* TrackingWriter::write_previous, the sink accepting `written` bytes of the copy.
write_previous(self, dist, len, written) ==
    IF ~(dist <= Len(self.history)) THEN [st |-> "dist is out of border", tw |-> self]
    ELSE IF ~(dist < HISTORY_SIZE) THEN [st |-> "dist must be less", tw |-> self]
    ELSE
        LET start == Len(self.history) - dist
            copied == CopyLoop(self.history, start, len, start, len, <<>>)
        IN  IF copied = <<-1>> THEN [st |-> "panic", tw |-> self]
            ELSE LET w == write(self, copied, Min(written, Len(copied)))
                 IN  IF w.ret < 0 THEN [st |-> "io error", tw |-> w.tw]
                     ELSE IF w.ret # len THEN [st |-> "could not write fully", tw |-> w.tw]
                     ELSE [st |-> "ok", tw |-> w.tw]

\* TrackingWriter::byte_count and TrackingWriter::crc32.
byte_count(self) == self.byte_count
crc32(self) == finalize(self.crc32)

----------------------------------------------------------------------------
(* SpecBits: a BitReader over a byte stream.                               *)

\* The bytes the streams of SpecBits are made of.
SampleBytes == {99, 255}

RECURSIVE SeqsUpTo(_, _)
SeqsUpTo(S, n) ==
    IF n = 0 THEN {<<>>}
    ELSE LET shorter == SeqsUpTo(S, n - 1)
         IN  shorter \cup {Append(s, x) : s \in shorter, x \in S}

NoMember == [header |-> <<>>]
NoWriter == TrackingWriter(<<>>)

InitBits ==
    /\ input \in SeqsUpTo(SampleBytes, MaxStreamLen)
    /\ pos = 0
    /\ bit_seq = BitSequence(0, 0)
    /\ overflow_checks \in BOOLEAN
    /\ tw = NoWriter
    /\ mark = 0
    /\ pc = "bits"
    /\ result = "running"
    /\ member = NoMember
    /\ last = [op |-> "new", taken |-> 0, wide |-> FALSE]
    /\ log = <<>>

\* One call reader.read_bits(len).  last.taken counts the bits the calls before it
\* asked for (it stops counting one past the end of the stream), last.wide tells
\* whether some call so far fetched all 16 bits (vital_len = 16).
ReadBits ==
    /\ pc = "bits"
    /\ result = "running"
    /\ \E len \in 0..16 :
         LET r == read_bits(input, pos, bit_seq, len, overflow_checks)
             taken == IF last.op = "read_bits"
                      THEN Min(last.taken + last.len, 8 * Len(input) + 1)
                      ELSE last.taken
         IN  /\ bit_seq' = r.bit_seq
             /\ pos' = r.pos
             /\ result' = IF r.st = "panic" THEN "panic" ELSE result
             /\ last' = [op |-> "read_bits", len |-> len, st |-> r.st, val |-> r.val,
                         taken |-> taken,
                         wide |-> last.wide \/ (len = 16 /\ bit_seq.len = 0)]
    /\ UNCHANGED <<input, overflow_checks, tw, mark, pc, member, log>>

NextBits == ReadBits

SpecBits == InitBits /\ [][NextBits]_vars

\* Bits from, from+1, ..., from+n-1 of the stream, bit 0 of the first byte first,
\* as the number whose bit i is stream bit from+i.
RECURSIVE StreamBits(_, _, _)
StreamBits(stream, from, n) ==
    IF n = 0 THEN 0
    ELSE BitAt(stream[(from \div 8) + 1], from % 8) + 2 * StreamBits(stream, from + 1, n - 1)

\* C2: every read_bits(n) with n in 0..16 that stays within the 8*|stream| bits of
\* the stream returns the next n bits of the stream, LSB first, with length n.
C2_ReadBitsReturnsNextBits ==
    (last.op = "read_bits" /\ last.taken + last.len <= 8 * Len(input))
        => /\ last.st = "ok"
           /\ last.val = [bits |-> StreamBits(input, last.taken, last.len),
                          len |-> last.len]

\* The same for the sequences with no read_bits(16) on an empty residual.
ReadBitsNoWideFetchLemma ==
    (last.op = "read_bits" /\ last.taken + last.len <= 8 * Len(input) /\ ~last.wide)
        => /\ last.st = "ok"
           /\ last.val = [bits |-> StreamBits(input, last.taken, last.len),
                          len |-> last.len]

----------------------------------------------------------------------------
(* SpecWriter: a TrackingWriter over a sink of SinkCap bytes.  On each     *)
(* write the sink takes any number of the bytes offered that still fit, or *)
(* fails.                                                                  *)

\* The bytes written in SpecWriter.
WriterBytes == {1, 2}

\* What inner.write(buf) may return with n bytes offered: an Ok count, or -1 for Err.
SinkAccepts(inner, n) == -1..Min(n, SinkCap - Len(inner))

InitWriter ==
    /\ input = <<>>
    /\ pos = 0
    /\ bit_seq = BitSequence(0, 0)
    /\ overflow_checks = FALSE
    /\ tw = TrackingWriter(<<>>)
    /\ mark = 0
    /\ pc = "writer"
    /\ result = "running"
    /\ member = NoMember
    /\ last = [op |-> "new"]
    /\ log = <<>>

\* writer.write(buf)
Write ==
    /\ pc = "writer"
    /\ result = "running"
    /\ \E buf \in SeqsUpTo(WriterBytes, MaxBuf) :
         \E written \in SinkAccepts(tw.inner, Len(buf)) :
            LET w == write(tw, buf, written)
            IN  /\ tw' = w.tw
                /\ last' = [op |-> "write", buf |-> buf, written |-> written,
                            ret |-> w.ret, pre |-> tw]
    /\ UNCHANGED <<input, pos, bit_seq, overflow_checks, mark, pc, result, member, log>>

\* writer.flush()
Flush ==
    /\ pc = "writer"
    /\ result = "running"
    /\ tw' = flush(tw)
    /\ mark' = Len(tw.inner)
    /\ last' = [op |-> "flush"]
    /\ UNCHANGED <<input, pos, bit_seq, overflow_checks, pc, result, member, log>>

\* writer.write_previous(dist, len).  The sink is asked only when the distance
\* passes both ensure!; last.full: the sink took, or would have taken, every byte
\* of the copy.
WritePrevious ==
    /\ pc = "writer"
    /\ result = "running"
    /\ \E dist \in 0..(HISTORY_SIZE + 1), len \in 0..MaxCopy :
         \E written \in IF write_previous(tw, dist, len, len).st \in DistanceErrors \cup {"panic"}
                        THEN {Min(len, SinkCap - Len(tw.inner))}
                        ELSE SinkAccepts(tw.inner, len) :
            LET r == write_previous(tw, dist, len, written)
            IN  /\ tw' = r.tw
                /\ result' = IF r.st = "panic" THEN "panic" ELSE result
                /\ last' = [op |-> "write_previous", dist |-> dist, len |-> len,
                            written |-> written, full |-> written = len,
                            st |-> r.st, pre |-> tw]
    /\ UNCHANGED <<input, pos, bit_seq, overflow_checks, mark, pc, member, log>>

NextWriter == Write \/ Flush \/ WritePrevious

SpecWriter == InitWriter /\ [][NextWriter]_vars

\* The bytes the sink has accepted since the last reset.
Accepted == SubSeq(tw.inner, mark + 1, Len(tw.inner))

\* The bytes the sink accepted during the last call.
Emitted == SubSeq(tw.inner, Len(last.pre.inner) + 1, Len(tw.inner))

\* C3: write_previous(d, l) with 1 <= d <= min(window length, HISTORY_SIZE) and a
\* sink that accepts every byte emits l bytes, byte i being byte
\* |window| - d + (i mod d) of the window (the periodic extension of its last d bytes).
C3_WritePreviousPeriodic ==
    (/\ last.op = "write_previous"
     /\ last.full
     /\ 1 <= last.dist
     /\ last.dist <= Min(Len(last.pre.history), HISTORY_SIZE))
        => /\ Len(Emitted) = last.len
           /\ \A i \in 0..(last.len - 1) :
                Emitted[i + 1] =
                    last.pre.history[Len(last.pre.history) - last.dist + (i % last.dist) + 1]

\* The same for the distances below HISTORY_SIZE, the ones the code accepts.
WritePreviousPeriodicBelowMaxLemma ==
    (/\ last.op = "write_previous"
     /\ last.full
     /\ 1 <= last.dist
     /\ last.dist <= Len(last.pre.history)
     /\ last.dist < HISTORY_SIZE)
        => /\ last.st = "ok"
           /\ Len(Emitted) = last.len
           /\ \A i \in 0..(last.len - 1) :
                Emitted[i + 1] =
                    last.pre.history[Len(last.pre.history) - last.dist + (i % last.dist) + 1]

\* C4: write_previous(distance, length) fails with a distance error exactly when
\* distance exceeds the window length or exceeds HISTORY_SIZE; every distance in
\* 1..min(window length, HISTORY_SIZE), HISTORY_SIZE included, is accepted.
C4_DistanceRange ==
    (last.op = "write_previous" /\ last.dist >= 1)
        => ((last.st \in DistanceErrors)
              <=> (last.dist > Len(last.pre.history) \/ last.dist > HISTORY_SIZE))

\* C5: byte_count is the number of bytes the sink has accepted since the last
\* reset, the digest is the CRC-32 of exactly those bytes, the window is the last
\* min(byte_count, HISTORY_SIZE) of them; a write returns the count the sink
\* accepted and advances the sink by exactly that prefix of the buffer.
C5_WriterTracksAccepted ==
    /\ tw.byte_count = Len(Accepted)
    /\ crc32(tw) = finalize(update(digest, Accepted))
    /\ tw.history = LastN(Accepted, HISTORY_SIZE)
    /\ Len(tw.history) = Min(tw.byte_count, HISTORY_SIZE)
    /\ (last.op = "write" /\ last.written >= 0)
          => /\ last.ret = last.written
             /\ Emitted = FirstN(last.buf, last.written)
             /\ tw.byte_count = last.pre.byte_count + last.written

C5_Witness ==
    /\ last.op = "write"
    /\ 0 < last.written
    /\ last.written < Len(last.buf)
    /\ tw.byte_count > HISTORY_SIZE

\* C6: a write_previous that returns an error advances byte_count by the number of
\* bytes the sink accepted during the call, and leaves the writer and the sink as
\* they were when the distance is refused or the sink accepts nothing.
C6_FailedWritePreviousFrame ==
    (last.op = "write_previous" /\ last.st \notin {"ok", "panic"})
        => /\ tw.byte_count = last.pre.byte_count + Len(Emitted)
           /\ tw.inner = last.pre.inner \o Emitted
           /\ (last.st \in DistanceErrors \/ Len(Emitted) = 0) => tw = last.pre
           /\ (last.st \notin DistanceErrors /\ last.written > 0)
                 => Len(Emitted) = last.written

C6_Witness ==
    /\ last.op = "write_previous"
    /\ last.st = "could not write fully"
    /\ Len(Emitted) > 0
    /\ last.pre.byte_count > 0


----------------------------------------------------------------------------
(* gzip.rs.  The reader is the pair (stream, at): the byte source and the   *)
(* number of its bytes consumed.  An Option is None or Some(x); a String is *)
(* its UTF-8 bytes; a u32 is its two 16-bit halves.                         *)

ID1 == 31
ID2 == 139
CM_DEFLATE == 8

FTEXT_OFFSET == 0
FHCRC_OFFSET == 1
FEXTRA_OFFSET == 2
FNAME_OFFSET == 3
FCOMMENT_OFFSET == 4

None == <<>>
Some(x) == <<x>>

\* u16::from_le_bytes, u32::from_le_bytes and u32::to_le_bytes.
u16_from_le_bytes(b) == b[1] + 256 * b[2]
u32_from_le_bytes(b) == [hi |-> b[3] + 256 * b[4], lo |-> b[1] + 256 * b[2]]
to_le_bytes(v) == <<v.lo % 256, v.lo \div 256, v.hi % 256, v.hi \div 256>>

\* Read::read_exact(buf) with buf of n bytes: a failure has consumed what was left.
read_exact(stream, at, n) ==
    IF Len(stream) - at < n
    THEN [ok |-> FALSE, buf |-> <<>>, pos |-> Len(stream)]
    ELSE [ok |-> TRUE, buf |-> SubSeq(stream, at + 1, at + n), pos |-> at + n]

\* BufRead::read_until(delim, data): the bytes up to and including the first delim,
\* or up to the end of the stream when there is none.
read_until(stream, at, delim) ==
    LET found == {j \in (at + 1)..Len(stream) : stream[j] = delim}
        stop  == IF found = {} THEN Len(stream)
                 ELSE CHOOSE j \in found : \A k \in found : j <= k
    IN  [data |-> SubSeq(stream, at + 1, stop), pos |-> stop]

\* The number of bytes of the UTF-8 sequence that starts with byte b, 0 for a byte
\* that starts none.
Utf8Width(b) ==
    IF b < 128 THEN 1
    ELSE IF b \in 194..223 THEN 2
    ELSE IF b \in 224..239 THEN 3
    ELSE IF b \in 240..244 THEN 4
    ELSE 0

\* String::from_utf8(data).is_ok(), from byte i of data on.
RECURSIVE Utf8Valid(_, _)
Utf8Valid(data, i) ==
    IF i > Len(data) THEN TRUE
    ELSE LET b == data[i]
             w == Utf8Width(b)
         IN  IF w = 0 \/ i + w - 1 > Len(data) THEN FALSE
             ELSE /\ \A k \in 1..(w - 1) : data[i + k] \in 128..191
                  /\ (b = 224 => data[i + 1] >= 160)
                  /\ (b = 237 => data[i + 1] <= 159)
                  /\ (b = 240 => data[i + 1] >= 144)
                  /\ (b = 244 => data[i + 1] <= 143)
                  /\ Utf8Valid(data, i + w)

\* MemberFlags::bit
bit(self, n) == BitAt(self, n) # 0

\* MemberHeader::flags, as the u8 it wraps.
flags(self) ==
      (IF self.is_text THEN 2 ^ FTEXT_OFFSET ELSE 0)
    + (IF self.has_crc THEN 2 ^ FHCRC_OFFSET ELSE 0)
    + (IF self.extra # None THEN 2 ^ FEXTRA_OFFSET ELSE 0)
    + (IF self.name # None THEN 2 ^ FNAME_OFFSET ELSE 0)
    + (IF self.comment # None THEN 2 ^ FCOMMENT_OFFSET ELSE 0)

\* The two updates of crc16 for extra, and for name and comment.
update_extra(reg, extra) ==
    IF extra = None THEN reg
    ELSE update(update(reg, <<Len(extra[1]) % 256, (Len(extra[1]) \div 256) % 256>>),
                extra[1])
update_string(reg, string) ==
    IF string = None THEN reg ELSE update(update(reg, string[1]), <<0>>)

\* MemberHeader::crc16: the low 16 bits of the CRC-32, as their 2 little-endian bytes.
crc16(self) ==
    FirstN(finalize(
        update_string(
            update_string(
                update_extra(
                    update(update(update(digest,
                                         <<ID1, ID2, self.compression_method, flags(self)>>),
                                  to_le_bytes(self.modification_time)),
                           <<self.extra_flags, self.os>>),
                    self.extra),
                self.name),
            self.comment)), 2)

\* GzipReader::read_header, the one call of read returning size bytes
\* (size = 0 exactly when the stream is at its end).
read_header(stream, at, size) ==
    IF size = 0 THEN [st |-> "none", header |-> <<>>, pos |-> at]
    ELSE IF size < 10 THEN [st |-> "eof error", header |-> <<>>, pos |-> at + size]
    ELSE [st |-> "ok", header |-> SubSeq(stream, at + 1, at + 10), pos |-> at + 10]

\* GzipReader::read_crc16: the unwrap panics when fewer than 2 bytes are left.
read_crc16(stream, at) ==
    LET r == read_exact(stream, at, 2)
    IN  IF r.ok THEN [st |-> "ok", val |-> r.buf, pos |-> r.pos]
        ELSE [st |-> "panic", val |-> <<>>, pos |-> r.pos]

\* GzipReader::read_string_until_null: data keeps the terminator read_until found.
read_string_until_null(stream, at) ==
    LET r == read_until(stream, at, 0)
    IN  [val |-> IF Utf8Valid(r.data, 1) THEN Some(r.data) ELSE None, pos |-> r.pos]

\* GzipReader::read_extra: whatever the sizes of the reads, the len_add bytes that
\* follow the length, or None when the stream ends before them.
read_extra(stream, at) ==
    LET sz == read_exact(stream, at, 2)
    IN  IF ~sz.ok THEN [val |-> None, pos |-> sz.pos]
        ELSE LET len_add == u16_from_le_bytes(sz.buf)
             IN  IF Len(stream) - sz.pos < len_add
                 THEN [val |-> None, pos |-> Len(stream)]
                 ELSE [val |-> Some(SubSeq(stream, sz.pos + 1, sz.pos + len_add)),
                       pos |-> sz.pos + len_add]

\* Where an optional section that is absent leaves the reader.
Absent(at) == [val |-> None, pos |-> at]

\* The MemberHeader that parse_header builds.
MemberHeader(header_bytes, extra, name, comment) ==
    [compression_method |-> header_bytes[3],
     modification_time |-> u32_from_le_bytes(SubSeq(header_bytes, 5, 8)),
     extra |-> extra, name |-> name, comment |-> comment,
     extra_flags |-> header_bytes[9], os |-> header_bytes[10],
     has_crc |-> bit(header_bytes[4], FHCRC_OFFSET),
     is_text |-> bit(header_bytes[4], FTEXT_OFFSET)]

\* parse_header from the comparison of the CRC-16 on.
parse_header_check(res, crc) ==
    IF crc.st = "panic" THEN [st |-> "panic", res |-> None, pos |-> crc.pos]
    ELSE IF res.has_crc /\ crc.val # crc16(res) THEN
        [st |-> "header crc16 check failed", res |-> None, pos |-> crc.pos]
    ELSE [st |-> "ok", res |-> Some(res), pos |-> crc.pos]

\* parse_header from crc16 on, the three optional sections read.
parse_header_crc16(stream, header_bytes, extra, name, comment) ==
    parse_header_check(
        MemberHeader(header_bytes, extra.val, name.val, comment.val),
        IF bit(header_bytes[4], FHCRC_OFFSET) THEN read_crc16(stream, comment.pos)
        ELSE [st |-> "ok", val |-> <<0, 0>>, pos |-> comment.pos])

\* parse_header from comment on.
parse_header_comment(stream, header_bytes, extra, name) ==
    parse_header_crc16(
        stream, header_bytes, extra, name,
        IF bit(header_bytes[4], FCOMMENT_OFFSET) THEN read_string_until_null(stream, name.pos)
        ELSE Absent(name.pos))

\* parse_header from name on.
parse_header_name(stream, header_bytes, extra) ==
    parse_header_comment(
        stream, header_bytes, extra,
        IF bit(header_bytes[4], FNAME_OFFSET) THEN read_string_until_null(stream, extra.pos)
        ELSE Absent(extra.pos))

\* GzipReader::parse_header on the 10 bytes read_header returned.
parse_header(stream, at, header_bytes) ==
    IF header_bytes[1] # ID1 \/ header_bytes[2] # ID2 THEN
        [st |-> "wrong id values", res |-> None, pos |-> at]
    ELSE IF header_bytes[3] # CM_DEFLATE THEN
        [st |-> "unsupported compression method", res |-> None, pos |-> at]
    ELSE
        parse_header_name(
            stream, header_bytes,
            IF bit(header_bytes[4], FEXTRA_OFFSET) THEN read_extra(stream, at)
            ELSE Absent(at))

\* MemberReader::read_footer
read_footer(stream, at) ==
    LET r == read_exact(stream, at, 8)
    IN  IF ~r.ok THEN [st |-> "UnexpectedEof", footer |-> None, pos |-> r.pos]
        ELSE [st |-> "ok",
              footer |-> Some([data_crc32 |-> u32_from_le_bytes(SubSeq(r.buf, 1, 4)),
                               data_size  |-> u32_from_le_bytes(SubSeq(r.buf, 5, 8))]),
              pos |-> r.pos]

----------------------------------------------------------------------------
(* huffman_coding.rs.  A HuffmanCoding is its map, a function from the      *)
(* BitSequence of a code to the token it stands for.  An operation that can *)
(* fail returns its outcome in st: "ok", "panic" or the error message.      *)

MAX_BITS == 15

\* TryFrom<HuffmanCodeWord> for TreeCodeToken
TreeCodeToken(value) ==
    IF value <= 15 THEN [st |-> "ok", tok |-> [kind |-> "Length", value |-> value]]
    ELSE IF value = 16 THEN [st |-> "ok", tok |-> [kind |-> "CopyPrev"]]
    ELSE IF value = 17 THEN
        [st |-> "ok", tok |-> [kind |-> "RepeatZero", base |-> 3, extra_bits |-> 3]]
    ELSE IF value = 18 THEN
        [st |-> "ok", tok |-> [kind |-> "RepeatZero", base |-> 11, extra_bits |-> 7]]
    ELSE [st |-> "Unknown value", tok |-> None]

\* LitLenToken::Length { base, extra_bits }
Length(base, extra_bits) ==
    [st |-> "ok", tok |-> [kind |-> "Length", base |-> base, extra_bits |-> extra_bits]]

\* TryFrom<HuffmanCodeWord> for LitLenToken: the assert! panics above 285.
LitLenToken(value) ==
    IF ~(value <= 285) THEN [st |-> "panic", tok |-> None]
    ELSE IF value = 256 THEN [st |-> "ok", tok |-> [kind |-> "EndOfBlock"]]
    ELSE IF value <= 255 THEN [st |-> "ok", tok |-> [kind |-> "Literal", value |-> value]]
    ELSE IF value <= 264 THEN Length(3 + (value - 257), 0)
    ELSE IF value <= 268 THEN Length(11 + (value - 265) * 2, 1)
    ELSE IF value <= 272 THEN Length(19 + (value - 269) * 4, 2)
    ELSE IF value <= 276 THEN Length(35 + (value - 273) * 8, 3)
    ELSE IF value <= 280 THEN Length(67 + (value - 277) * 16, 4)
    ELSE IF value <= 284 THEN Length(131 + (value - 281) * 32, 5)
    ELSE Length(258, 0)

TABLE ==
    << <<1, 0>>, <<2, 0>>, <<3, 0>>, <<4, 0>>, <<5, 1>>, <<7, 1>>, <<9, 2>>, <<13, 2>>,
       <<17, 3>>, <<25, 3>>, <<33, 4>>, <<49, 4>>, <<65, 5>>, <<97, 5>>, <<129, 6>>,
       <<193, 6>>, <<257, 7>>, <<385, 7>>, <<513, 8>>, <<769, 8>>, <<1025, 9>>,
       <<1537, 9>>, <<2049, 10>>, <<3073, 10>>, <<4097, 11>>, <<6145, 11>>,
       <<8193, 12>>, <<12289, 12>>, <<16385, 13>>, <<24577, 13>> >>

\* TryFrom<HuffmanCodeWord> for DistanceToken
DistanceToken(value) ==
    IF value < Len(TABLE)
    THEN [st |-> "ok", tok |-> [base |-> TABLE[value + 1][1], extra_bits |-> TABLE[value + 1][2]]]
    ELSE [st |-> "wrong code", tok |-> None]

\* TryFrom<HuffmanCodeWord> for the Value of the unit tests: the symbol itself.
Value(value) == [st |-> "ok", tok |-> value]

\* T::try_from(HuffmanCodeWord(value)) for the token type T.
try_from(T, value) ==
    IF T = "TreeCodeToken" THEN TreeCodeToken(value)
    ELSE IF T = "LitLenToken" THEN LitLenToken(value)
    ELSE IF T = "Value" THEN Value(value)
    ELSE DistanceToken(value)

\* The HashMap with no entry.
EmptyMap == [seq \in {} |-> None]

\* HuffmanCoding::decode_symbol
decode_symbol(self, seq) == IF seq \in DOMAIN self THEN Some(self[seq]) ELSE None

\* The loop of read_symbol, r being what read_bits(1) returned: the bit is put
\* below the bits read so far (the assert! of concat panics on the 17th bit), and
\* the loop goes on when the map has no such code.
RECURSIVE read_symbol_loop(_, _, _, _, _, _)
read_symbol_decode(self, stream, r, result_symbol, checks) ==
    IF decode_symbol(self, result_symbol) # None
    THEN [st |-> "ok", val |-> decode_symbol(self, result_symbol)[1],
          bit_seq |-> r.bit_seq, pos |-> r.pos]
    ELSE read_symbol_loop(self, stream, r.pos, r.bit_seq, result_symbol, checks)

read_symbol_bit(self, stream, r, result_symbol, checks) ==
    IF r.st # "ok" THEN
        [st |-> "couldn't read", val |-> None, bit_seq |-> r.bit_seq, pos |-> r.pos]
    ELSE IF ~(r.val.len + result_symbol.len <= 16) THEN
        [st |-> "panic", val |-> None, bit_seq |-> r.bit_seq, pos |-> r.pos]
    ELSE read_symbol_decode(self, stream, r, concat(r.val, result_symbol), checks)

read_symbol_loop(self, stream, at, seq, result_symbol, checks) ==
    read_symbol_bit(self, stream, read_bits(stream, at, seq, 1, checks), result_symbol,
                    checks)

\* HuffmanCoding::read_symbol on the bit reader (stream, at, seq).
read_symbol(self, stream, at, seq, checks) ==
    read_symbol_loop(self, stream, at, seq, BitSequence(0, 0), checks)

\* bl_count.get(length), 0 for a length that has no entry (0 never has one).
bl_count(code_lengths, length) ==
    IF length = 0 THEN 0
    ELSE Cardinality({i \in 1..Len(code_lengths) : code_lengths[i] = length})

\* next_code without the shift by one bit from a length to the next.
RECURSIVE next_code_unshifted(_, _, _, _)
next_code_unshifted(code_lengths, bits, acc, checks) ==
    IF bits > MAX_BITS THEN acc
    ELSE LET sum == acc[bits] + bl_count(code_lengths, bits - 1)
         IN  IF sum > 65535 /\ checks THEN <<-1>>
             ELSE next_code_unshifted(code_lengths, bits + 1, Append(acc, sum % 65536),
                                      checks)

\* The first loop over next_code, entry `bits` kept at index bits + 1.  The sum
\* overflows u16 above 65535: a panic with overflow checks (<<-1>>), else it wraps.
RECURSIVE next_code(_, _, _, _)
next_code(code_lengths, bits, acc, checks) ==
    IF bits > MAX_BITS THEN acc
    ELSE LET sum == acc[bits] + bl_count(code_lengths, bits - 1)
         IN  IF sum > 65535 /\ checks THEN <<-1>>
             ELSE next_code(code_lengths, bits + 1, Append(acc, Shl16(sum % 65536, 1)),
                            checks)

\* The indices (from 0) in S in increasing order.
RECURSIVE Ascending(_)
Ascending(S) ==
    IF S = {} THEN <<>>
    ELSE LET m == CHOOSE x \in S : \A y \in S : x <= y
         IN  <<m>> \o Ascending(S \ {m})

\* The second loop of from_lengths over the symbols of non-zero length that are
\* left, todo.  A length above MAX_BITS indexes next_code out of bounds (panic), and
\* next_code[len] += 1 overflows at 65535.
RECURSIVE from_lengths_loop(_, _, _, _, _, _)
from_lengths_loop(code_lengths, T, todo, codes, map, checks) ==
    IF todo = <<>> THEN [st |-> "ok", map |-> map]
    ELSE
        LET i   == Head(todo)
            len == code_lengths[i + 1]
        IN  IF len > MAX_BITS THEN [st |-> "panic", map |-> EmptyMap]
            ELSE
                LET seq  == BitSequence(codes[len + 1], len)
                    elem == try_from(T, i)
                IN  IF elem.st # "ok" THEN [st |-> elem.st, map |-> EmptyMap]
                    ELSE IF codes[len + 1] = 65535 /\ checks THEN
                        [st |-> "panic", map |-> EmptyMap]
                    ELSE from_lengths_loop(
                            code_lengths, T, Tail(todo),
                            [codes EXCEPT ![len + 1] = (@ + 1) % 65536],
                            (seq :> elem.tok) @@ map, checks)

\* HuffmanCoding::<T>::from_lengths(code_lengths)
from_lengths(code_lengths, T, checks) ==
    LET codes == next_code(code_lengths, 1, <<0>>, checks)
        todo  == Ascending({i \in 0..(Len(code_lengths) - 1) : code_lengths[i + 1] > 0})
    IN  IF codes = <<-1>> THEN [st |-> "panic", map |-> EmptyMap]
        ELSE from_lengths_loop(code_lengths, T, todo, codes, EmptyMap, checks)

\* The order in which the lengths of the code-length alphabet are stored.
CodeLengthOrder == <<16, 17, 18, 0, 8, 7, 9, 6, 10, 5, 11, 4, 12, 3, 13, 2, 14, 1, 15>>

\* The loop of decode_litlen_distance_trees that reads the code lengths, entry val
\* kept at index val + 1.
RECURSIVE read_code_lengths(_, _, _, _, _, _, _)
read_code_lengths(stream, at, seq, num, num_code_lengths, code_lengths, checks) ==
    IF num >= Len(CodeLengthOrder) \/ num >= num_code_lengths THEN
        [st |-> "ok", code_lengths |-> code_lengths, bit_seq |-> seq, pos |-> at]
    ELSE
        LET r == read_bits(stream, at, seq, 3, checks)
        IN  IF r.st # "ok" THEN
                [st |-> "UnexpectedEof", code_lengths |-> code_lengths,
                 bit_seq |-> r.bit_seq, pos |-> r.pos]
            ELSE read_code_lengths(
                    stream, r.pos, r.bit_seq, num + 1, num_code_lengths,
                    [code_lengths EXCEPT ![CodeLengthOrder[num + 1] + 1] = r.val.bits],
                    checks)

\* n copies of x.
Repeat(x, n) == [i \in 1..n |-> x]

\* Vec::reserve(additional) on a Vec<u8> of length len and capacity cap: the new
\* capacity (the amortized growth of the standard library).
reserve(cap, len, additional) ==
    IF cap - len >= additional THEN cap
    ELSE Max(Max(2 * cap, len + additional), 8)

\* The while loop over one length_vec, whose capacity is cap.
RECURSIVE read_token_lengths(_, _, _, _, _, _, _)

\* CopyPrev and RepeatZero, r being the read_bits of the count: `value` is appended
\* r + base times.
token_lengths_repeat(encoder, stream, length_vec, cap, value, base, r, checks) ==
    IF r.st # "ok" THEN
        [st |-> "UnexpectedEof", vec |-> length_vec, bit_seq |-> r.bit_seq, pos |-> r.pos]
    ELSE read_token_lengths(encoder, stream, r.pos, r.bit_seq,
                            length_vec \o Repeat(value, r.val.bits + base),
                            reserve(cap, Len(length_vec), r.val.bits + base), checks)

\* The match on the token s that encoder.read_symbol returned.
token_lengths_match(encoder, stream, length_vec, cap, s, checks) ==
    IF s.st # "ok" THEN
        [st |-> s.st, vec |-> length_vec, bit_seq |-> s.bit_seq, pos |-> s.pos]
    ELSE IF s.val.kind = "Length" THEN
        read_token_lengths(encoder, stream, s.pos, s.bit_seq,
                           Append(length_vec, s.val.value), cap, checks)
    ELSE IF s.val.kind = "CopyPrev" THEN
        token_lengths_repeat(encoder, stream, length_vec, cap,
                             IF length_vec = <<>> THEN 0 ELSE length_vec[Len(length_vec)],
                             3, read_bits(stream, s.pos, s.bit_seq, 2, checks), checks)
    ELSE
        token_lengths_repeat(encoder, stream, length_vec, cap, 0, s.val.base,
                             read_bits(stream, s.pos, s.bit_seq, s.val.extra_bits, checks),
                             checks)

read_token_lengths(encoder, stream, at, seq, length_vec, cap, checks) ==
    IF ~(Len(length_vec) < cap) THEN
        [st |-> "ok", vec |-> length_vec, bit_seq |-> seq, pos |-> at]
    ELSE token_lengths_match(encoder, stream, length_vec, cap,
                             read_symbol(encoder, stream, at, seq, checks), checks)

\* decode_litlen_distance_trees leaves with the error st, the reader as r has it.
TreesFailed(st, r) ==
    [st |-> st, lit_length |-> EmptyMap, dist |-> EmptyMap, bit_seq |-> r.bit_seq,
     pos |-> r.pos]

\* decode_litlen_distance_trees, one step each, from its last to its first: the
\* result of the step before comes in as the last parameter but checks.
decode_trees_return(distance, lit_length, dist) ==
    IF dist.st # "ok" THEN TreesFailed(dist.st, distance)
    ELSE [st |-> "ok", lit_length |-> lit_length.map, dist |-> dist.map,
          bit_seq |-> distance.bit_seq, pos |-> distance.pos]

decode_trees_dist(distance, lit_length, checks) ==
    IF lit_length.st # "ok" THEN TreesFailed(lit_length.st, distance)
    ELSE decode_trees_return(distance, lit_length,
                             from_lengths(distance.vec, "DistanceToken", checks))

decode_trees_lit_length(litlen, distance, checks) ==
    IF distance.st # "ok" THEN TreesFailed(distance.st, distance)
    ELSE decode_trees_dist(distance, from_lengths(litlen.vec, "LitLenToken", checks), checks)

decode_trees_distance_lengths(stream, num_distance_tokens, encoder, litlen, checks) ==
    IF litlen.st # "ok" THEN TreesFailed(litlen.st, litlen)
    ELSE decode_trees_lit_length(
            litlen,
            read_token_lengths(encoder.map, stream, litlen.pos, litlen.bit_seq, <<>>,
                               num_distance_tokens, checks),
            checks)

decode_trees_litlen_lengths(stream, num_litlen_tokens, num_distance_tokens, lens, encoder, checks) ==
    IF encoder.st # "ok" THEN TreesFailed(encoder.st, lens)
    ELSE decode_trees_distance_lengths(
            stream, num_distance_tokens, encoder,
            read_token_lengths(encoder.map, stream, lens.pos, lens.bit_seq, <<>>,
                               num_litlen_tokens, checks),
            checks)

decode_trees_encoder(stream, num_litlen_tokens, num_distance_tokens, lens, checks) ==
    IF lens.st # "ok" THEN TreesFailed(lens.st, lens)
    ELSE decode_trees_litlen_lengths(
            stream, num_litlen_tokens, num_distance_tokens, lens,
            from_lengths(lens.code_lengths, "TreeCodeToken", checks), checks)

decode_trees_code_lengths(stream, num_litlen_tokens, num_distance_tokens, hclen, checks) ==
    IF hclen.st # "ok" THEN TreesFailed("UnexpectedEof", hclen)
    ELSE decode_trees_encoder(
            stream, num_litlen_tokens, num_distance_tokens,
            read_code_lengths(stream, hclen.pos, hclen.bit_seq, 0, hclen.val.bits + 4,
                              Repeat(0, 19), checks),
            checks)

decode_trees_hclen(stream, num_litlen_tokens, hdist, checks) ==
    IF hdist.st # "ok" THEN TreesFailed("UnexpectedEof", hdist)
    ELSE decode_trees_code_lengths(
            stream, num_litlen_tokens, hdist.val.bits + 1,
            read_bits(stream, hdist.pos, hdist.bit_seq, 4, checks), checks)

decode_trees_hdist(stream, hlit, checks) ==
    IF hlit.st # "ok" THEN TreesFailed("UnexpectedEof", hlit)
    ELSE decode_trees_hclen(
            stream, hlit.val.bits + 257,
            read_bits(stream, hlit.pos, hlit.bit_seq, 5, checks), checks)

\* decode_litlen_distance_trees on the bit reader (stream, at, seq).
decode_litlen_distance_trees(stream, at, seq, checks) ==
    decode_trees_hdist(stream, read_bits(stream, at, seq, 5, checks), checks)

----------------------------------------------------------------------------
(* deflate.rs and the block functions of lib.rs, on the bit reader          *)
(* (stream, at, seq) and the TrackingWriter.  The sink of decompress takes  *)
(* every byte it is offered.                                                *)

\* CompressionType of the two bits of a block header.
CompressionType(bits) ==
    CASE bits = 0 -> "Uncompressed"
      [] bits = 1 -> "FixedTree"
      [] bits = 2 -> "DynamicTree"
      [] OTHER -> "Reserved"

\* next_block, f and t being what read_bits(1) and read_bits(2) returned.
next_block_header(f, t) ==
    IF t.st # "ok" THEN [st |-> "none", hdr |-> None, bit_seq |-> t.bit_seq, pos |-> t.pos]
    ELSE [st |-> "ok",
          hdr |-> Some([is_final |-> f.val.bits = 1,
                        compression_type |-> CompressionType(t.val.bits)]),
          bit_seq |-> t.bit_seq, pos |-> t.pos]

next_block_type(stream, f, checks) ==
    IF f.st # "ok" THEN [st |-> "none", hdr |-> None, bit_seq |-> f.bit_seq, pos |-> f.pos]
    ELSE next_block_header(f, read_bits(stream, f.pos, f.bit_seq, 2, checks))

\* DeflateReader::next_block: a read_bits that fails makes it None.
next_block(stream, at, seq, checks) ==
    next_block_type(stream, read_bits(stream, at, seq, 1, checks), checks)

\* process_uncompressed_block
process_uncompressed_block(stream, at, track_writer) ==
    LET seq    == borrow_reader_from_boundary
        length == read_exact(stream, at, 2)
        nlen   == read_exact(stream, length.pos, 2)
        buffer == read_exact(stream, nlen.pos, u16_from_le_bytes(length.buf))
    IN  IF ~length.ok THEN
            [st |-> "UnexpectedEof", tw |-> track_writer, bit_seq |-> seq, pos |-> length.pos]
        ELSE IF ~nlen.ok THEN
            [st |-> "UnexpectedEof", tw |-> track_writer, bit_seq |-> seq, pos |-> nlen.pos]
        ELSE IF u16_from_le_bytes(length.buf) # 65535 - u16_from_le_bytes(nlen.buf) THEN
            [st |-> "nlen check failed", tw |-> track_writer, bit_seq |-> seq, pos |-> nlen.pos]
        ELSE IF ~buffer.ok THEN
            [st |-> "UnexpectedEof", tw |-> track_writer, bit_seq |-> seq, pos |-> buffer.pos]
        ELSE [st |-> "ok", tw |-> write(track_writer, buffer.buf, Len(buffer.buf)).tw,
              bit_seq |-> seq, pos |-> buffer.pos]

\* What one turn of the while loop of process_dynamic_tree_block leaves: st is "ok"
\* when the loop goes on, "end" when it ends, else the error or "panic"; r has the
\* reader, ref the back-reference that was asked of the writer.
Turn(st, r, track_writer, ref) ==
    [st |-> st, tw |-> track_writer, bit_seq |-> r.bit_seq, pos |-> r.pos, ref |-> ref]

\* The arm LitLenToken::Length, one step each, from its last to its first.
token_write_previous(dextra, distance, size, copy) ==
    Turn(copy.st, dextra, copy.tw,
         Some([distance |-> distance, size |-> size, st |-> copy.st]))

token_distance(track_writer, size, dtok, dextra) ==
    IF dextra.st # "ok" THEN Turn("UnexpectedEof", dextra, track_writer, None)
    ELSE token_write_previous(
            dextra, dtok.val.base + dextra.val.bits, size,
            write_previous(track_writer, dtok.val.base + dextra.val.bits, size, size))

token_distance_extra(stream, track_writer, size, dtok, checks) ==
    IF dtok.st # "ok" THEN Turn(dtok.st, dtok, track_writer, None)
    ELSE token_distance(track_writer, size, dtok,
                        read_bits(stream, dtok.pos, dtok.bit_seq, dtok.val.extra_bits,
                                  checks))

token_length(dist, stream, track_writer, token, extra, checks) ==
    IF extra.st # "ok" THEN Turn("UnexpectedEof", extra, track_writer, None)
    ELSE token_distance_extra(stream, track_writer, token.val.base + extra.val.bits,
                              read_symbol(dist, stream, extra.pos, extra.bit_seq, checks),
                              checks)

\* The match on the token that lit_length.read_symbol returned; a read_symbol that
\* failed ends the loop as EndOfBlock does.
token_match(dist, stream, track_writer, token, checks) ==
    IF token.st = "panic" THEN Turn("panic", token, track_writer, None)
    ELSE IF token.st # "ok" THEN Turn("end", token, track_writer, None)
    ELSE IF token.val.kind = "EndOfBlock" THEN Turn("end", token, track_writer, None)
    ELSE IF token.val.kind = "Literal" THEN
        Turn("ok", token, write(track_writer, <<token.val.value>>, 1).tw, None)
    ELSE token_length(dist, stream, track_writer, token,
                      read_bits(stream, token.pos, token.bit_seq, token.val.extra_bits,
                                checks),
                      checks)

\* One turn of the while loop of process_dynamic_tree_block.
read_token(lit_length, dist, stream, at, seq, track_writer, checks) ==
    token_match(dist, stream, track_writer,
                read_symbol(lit_length, stream, at, seq, checks), checks)

\* validate_footer_data with the comparison of the two CRC-32 left out.
validate_footer_data_length_only(track_writer, initial_len, footer_data) ==
    LET count == byte_count(track_writer)
        sum   == initial_len + footer_data.data_size.lo
        expected_len == [hi |-> footer_data.data_size.hi + sum \div 65536,
                         lo |-> sum % 65536]
    IN  IF [hi |-> count \div 65536, lo |-> count % 65536] # expected_len
        THEN "length check failed"
        ELSE "ok"

\* The two comparisons of validate_footer_data: count and expected_len are usize,
\* data_crc32 and crc u32.
validate_footer_check(count, expected_len, data_crc32, crc) ==
    IF count # expected_len THEN "length check failed"
    ELSE IF data_crc32 # crc THEN "crc32 check failed"
    ELSE "ok"

\* validate_footer_data.  expected_len is a usize: it is kept, as the u32 are, in
\* 16-bit halves (the upper one holds what is above 2^16).
validate_footer_data(track_writer, initial_len, footer_data) ==
    LET count == byte_count(track_writer)
        sum   == initial_len + footer_data.data_size.lo
        expected_len == [hi |-> footer_data.data_size.hi + sum \div 65536,
                         lo |-> sum % 65536]
    IN  validate_footer_check([hi |-> count \div 65536, lo |-> count % 65536],
                              expected_len, footer_data.data_crc32,
                              u32_from_le_bytes(crc32(track_writer)))

----------------------------------------------------------------------------
(* The gzip members the input streams of Spec are made of.                  *)

\* one stored block "hi", no optional header section.
StoredHi ==
    <<31, 139, 8, 0, 0, 0, 0, 0, 0, 3, 1, 2, 0, 253, 255, 104, 105, 172, 42, 147, 216,
      2, 0, 0, 0>>

\* one dynamic-Huffman block: literal "a", then length 3 at distance 1.
DynamicAaaa ==
    <<31, 139, 8, 0, 0, 0, 0, 0, 0, 3, 13, 192, 129, 0, 0, 0, 0, 128, 32, 214, 253, 37,
      174, 24, 69, 229, 152, 173, 4, 0, 0, 0>>

\* the same trees, the first token being length 3 at distance 1.
DynamicFarRef ==
    <<31, 139, 8, 0, 0, 0, 0, 0, 0, 3, 13, 192, 129, 0, 0, 0, 0, 128, 32, 214, 253, 37,
      46, 6, 45, 115, 7, 240, 3, 0, 0, 0>>

\* StoredHi with ISIZE 3.
StoredBadSize ==
    <<31, 139, 8, 0, 0, 0, 0, 0, 0, 3, 1, 2, 0, 253, 255, 104, 105, 172, 42, 147, 216,
      3, 0, 0, 0>>

\* StoredHi with one bit of the CRC-32 flipped.
StoredBadCrc ==
    <<31, 139, 8, 0, 0, 0, 0, 0, 0, 3, 1, 2, 0, 253, 255, 104, 105, 173, 42, 147, 216,
      2, 0, 0, 0>>

\* FHCRC, the CRC-16 of the 10 header bytes; one stored block "h".
HcrcOk ==
    <<31, 139, 8, 2, 0, 0, 0, 0, 0, 3, 167, 119, 1, 1, 0, 254, 255, 104, 231, 6, 107,
      145, 1, 0, 0, 0>>

\* HcrcOk with another CRC-16.
HcrcBad ==
    <<31, 139, 8, 2, 0, 0, 0, 0, 0, 3, 142, 103, 1, 1, 0, 254, 255, 104, 231, 6, 107,
      145, 1, 0, 0, 0>>

\* FEXTRA "x" and FHCRC, the CRC-16 of the 13 header bytes.
ExtraHcrcOk ==
    <<31, 139, 8, 6, 0, 0, 0, 0, 0, 3, 1, 0, 120, 86, 83, 1, 1, 0, 254, 255, 104, 231,
      6, 107, 145, 1, 0, 0, 0>>

\* FNAME "n" and FHCRC, the CRC-16 of the 12 header bytes.
NameHcrcOk ==
    <<31, 139, 8, 10, 0, 0, 0, 0, 0, 3, 110, 0, 35, 52, 1, 1, 0, 254, 255, 104, 231, 6,
      107, 145, 1, 0, 0, 0>>

\* NameHcrcOk with the CRC-16 of the 12 header bytes and one more zero.
NameHcrcTwoZeros ==
    <<31, 139, 8, 10, 0, 0, 0, 0, 0, 3, 110, 0, 203, 198, 1, 1, 0, 254, 255, 104, 231,
      6, 107, 145, 1, 0, 0, 0>>

\* FNAME "n" and FCOMMENT "c"; one stored block "h".
NameComment ==
    <<31, 139, 8, 24, 0, 0, 0, 0, 0, 3, 110, 0, 99, 0, 1, 1, 0, 254, 255, 104, 231, 6,
      107, 145, 1, 0, 0, 0>>

\* one block with BFINAL = 1 and BTYPE = 11.
ReservedBlock ==
    <<31, 139, 8, 0, 0, 0, 0, 0, 0, 3, 7, 0, 0, 0, 0, 0, 0, 0, 0>>

\* one fixed-Huffman block (BTYPE = 01) with the end-of-block code alone.
FixedBlock ==
    <<31, 139, 8, 0, 0, 0, 0, 0, 0, 3, 3, 0, 0, 0, 0, 0, 0, 0, 0, 0>>

\* a stored block "h" that is not final, then a block with BTYPE = 11.
StoredThenReserved ==
    <<31, 139, 8, 0, 0, 0, 0, 0, 0, 3, 0, 1, 0, 254, 255, 104, 7, 231, 6, 107, 145, 1,
      0, 0, 0>>


----------------------------------------------------------------------------
(* Spec: decompress(input, output), one action per statement of its loop.  *)

\* The most members in an input stream.
MaxMembers == 2

Members ==
    {StoredHi, DynamicAaaa, DynamicFarRef, StoredBadSize, StoredBadCrc,
     HcrcOk, HcrcBad, ExtraHcrcOk, NameHcrcOk, NameHcrcTwoZeros,
     NameComment, ReservedBlock, FixedBlock, StoredThenReserved}

\* The members that come before the last one of a stream.
LeadingMembers == {StoredHi, StoredBadCrc, DynamicAaaa}

\* The streams of n members and less, as the pair of all the members but the last,
\* concatenated, and the last member.
RECURSIVE LeadingStreams(_)
LeadingStreams(n) ==
    IF n = 0 THEN {<<>>}
    ELSE LET shorter == LeadingStreams(n - 1)
         IN  shorter \cup {s \o m : s \in shorter, m \in LeadingMembers}

\* What one call of read may return when n bytes are left and `want` are asked for:
\* 0 at the end of the stream, else all it can give, one byte less, or one byte.
ReadSizes(n, want) ==
    IF n = 0 THEN {0}
    ELSE {k \in 1..Min(n, want) : k \in {1, Min(n, want) - 1, Min(n, want)}}

\* The locals of decompress before the first member.
NoLocals ==
    [header |-> <<>>, parsed |-> None, initial_len |-> 0, block_hdr |-> None,
     lit_length |-> EmptyMap, dist |-> EmptyMap, footer |-> None]

\* The input is a stream of members, whole or cut inside its last member.
\* last.cut_inside tells which; last.start is where the member being decoded
\* starts, last.avail the bytes that were left there.
Init ==
    /\ \E s \in LeadingStreams(MaxMembers - 1), m \in Members \cup {<<>>} :
         \E k \in 0..Len(m) :
            /\ (m = <<>> => s = <<>>)
            /\ (m # <<>> => k > 0)
            /\ input = s \o FirstN(m, k)
            /\ last = [op |-> "new", cut_inside |-> k < Len(m), start |-> 0,
                       avail |-> 0, size |-> 0, st |-> "ok", ref |-> None, before |-> <<>>]
    /\ pos = 0
    /\ bit_seq = BitSequence(0, 0)
    /\ overflow_checks \in BOOLEAN
    /\ tw = TrackingWriter(<<>>)
    /\ mark = 0
    /\ pc = "read_header"
    /\ result = "running"
    /\ member = NoLocals
    /\ log = <<>>

\* decompress returns: st is "ok", the message of the error, or "panic".
Return(st) ==
    /\ result' = st
    /\ pc' = "done"

\* gzip_reader.read_header(), and `header?`.
ReadHeader ==
    /\ pc = "read_header"
    /\ result = "running"
    /\ \E size \in ReadSizes(Len(input) - pos, 10) :
         LET r == read_header(input, pos, size)
         IN  /\ pos' = r.pos
             /\ member' = [NoLocals EXCEPT !.header = r.header]
             /\ last' = [last EXCEPT !.op = "read_header", !.start = pos,
                                     !.avail = Len(input) - pos, !.size = size,
                                     !.st = r.st, !.ref = None, !.before = tw.inner]
             /\ IF r.st = "none" THEN Return("ok")
                ELSE IF r.st # "ok" THEN Return(r.st)
                ELSE pc' = "parse_header" /\ result' = result
    /\ UNCHANGED <<input, bit_seq, overflow_checks, tw, mark, log>>

\* gzip_reader.parse_header(&header)
ParseHeader ==
    /\ pc = "parse_header"
    /\ result = "running"
    /\ \E r \in {parse_header(input, pos, member.header)} :
           /\ pos' = r.pos
           /\ member' = [member EXCEPT !.parsed = r.res]
           /\ last' = [last EXCEPT !.op = "parse_header", !.st = r.st]
           /\ IF r.st # "ok" THEN Return(r.st)
              ELSE pc' = "start_blocks" /\ result' = result
    /\ UNCHANGED <<input, bit_seq, overflow_checks, tw, mark, log>>

\* track_writer.flush(), initial_len, DeflateReader::new(BitReader::new(..))
StartBlocks ==
    /\ pc = "start_blocks"
    /\ result = "running"
    /\ tw' = flush(tw)
    /\ mark' = Len(tw.inner)
    /\ member' = [member EXCEPT !.initial_len = byte_count(flush(tw))]
    /\ bit_seq' = BitSequence(0, 0)
    /\ last' = [last EXCEPT !.op = "start_blocks", !.st = "ok"]
    /\ pc' = "next_block"
    /\ UNCHANGED <<input, pos, overflow_checks, result, log>>

\* process_blocks: defl_reader.next_block() and the match on the block type.
\* last.before is the sink when the block begins.
NextBlock ==
    /\ pc = "next_block"
    /\ result = "running"
    /\ \E r \in {next_block(input, pos, bit_seq, overflow_checks)} :
           /\ pos' = r.pos
           /\ bit_seq' = r.bit_seq
           /\ member' = [member EXCEPT !.block_hdr = r.hdr]
           /\ last' = [last EXCEPT !.op = "next_block", !.st = r.st, !.before = tw.inner]
           /\ IF r.st = "none" THEN pc' = "read_footer" /\ result' = result
              ELSE IF r.hdr[1].compression_type = "Uncompressed"
              THEN pc' = "uncompressed" /\ result' = result
              ELSE IF r.hdr[1].compression_type = "DynamicTree"
              THEN pc' = "trees" /\ result' = result
              ELSE Return("unsupported block type")
    /\ UNCHANGED <<input, overflow_checks, tw, mark, log>>

\* Where process_blocks goes after a block.
AfterBlock == IF member.block_hdr[1].is_final THEN "read_footer" ELSE "next_block"

\* process_uncompressed_block(rdr, track_writer)
ProcessUncompressedBlock ==
    /\ pc = "uncompressed"
    /\ result = "running"
    /\ \E r \in {process_uncompressed_block(input, pos, tw)} :
           /\ pos' = r.pos
           /\ bit_seq' = r.bit_seq
           /\ tw' = r.tw
           /\ last' = [last EXCEPT !.op = "process_uncompressed_block", !.st = r.st]
           /\ IF r.st # "ok" THEN Return(r.st)
              ELSE pc' = AfterBlock /\ result' = result
    /\ UNCHANGED <<input, overflow_checks, mark, member, log>>

\* process_dynamic_tree_block: decode_litlen_distance_trees(rdr)?
DecodeTrees ==
    /\ pc = "trees"
    /\ result = "running"
    /\ \E r \in {decode_litlen_distance_trees(input, pos, bit_seq, overflow_checks)} :
           /\ pos' = r.pos
           /\ bit_seq' = r.bit_seq
           /\ member' = [member EXCEPT !.lit_length = r.lit_length, !.dist = r.dist]
           /\ last' = [last EXCEPT !.op = "decode_litlen_distance_trees", !.st = r.st]
           /\ IF r.st # "ok" THEN Return(r.st)
              ELSE pc' = "token" /\ result' = result
    /\ UNCHANGED <<input, overflow_checks, tw, mark, log>>

\* process_dynamic_tree_block: one turn of its while loop.  last.ref is the
\* back-reference the turn asked for, if any; last.before the sink before the turn.
ReadToken ==
    /\ pc = "token"
    /\ result = "running"
    /\ \E r \in {read_token(member.lit_length, member.dist, input, pos, bit_seq, tw,
                            overflow_checks)} :
           /\ pos' = r.pos
           /\ bit_seq' = r.bit_seq
           /\ tw' = r.tw
           /\ last' = [last EXCEPT !.op = "read_token", !.st = r.st, !.ref = r.ref,
                                   !.before = tw.inner]
           /\ IF r.st = "ok" THEN pc' = pc /\ result' = result
              ELSE IF r.st = "end" THEN pc' = AfterBlock /\ result' = result
              ELSE Return(r.st)
    /\ UNCHANGED <<input, overflow_checks, mark, member, log>>

\* parsed.1.read_footer()?
ReadFooter ==
    /\ pc = "read_footer"
    /\ result = "running"
    /\ \E r \in {read_footer(input, pos)} :
           /\ pos' = r.pos
           /\ member' = [member EXCEPT !.footer = r.footer]
           /\ last' = [last EXCEPT !.op = "read_footer", !.st = r.st]
           /\ IF r.st # "ok" THEN Return(r.st)
              ELSE pc' = "validate" /\ result' = result
    /\ UNCHANGED <<input, bit_seq, overflow_checks, tw, mark, log>>

\* validate_footer_data(&mut track_writer, initial_len, footer.0)?  log gets the
\* member: where it starts and ends in the input, the 8 bytes of its trailer, the
\* bytes the sink took since the member's reset, and the verdict.
ValidateFooter ==
    /\ pc = "validate"
    /\ result = "running"
    /\ \E st \in {validate_footer_data(tw, member.initial_len, member.footer[1])} :
           /\ log' = Append(log, [start |-> last.start, end |-> pos,
                                  trailer |-> SubSeq(input, pos - 7, pos),
                                  emitted |-> SubSeq(tw.inner, mark + 1, Len(tw.inner)),
                                  st |-> st])
           /\ last' = [last EXCEPT !.op = "validate_footer_data", !.st = st]
           /\ IF st # "ok" THEN Return(st)
              ELSE pc' = "read_header" /\ result' = result
    /\ UNCHANGED <<input, pos, bit_seq, overflow_checks, tw, mark, member>>

Next ==
    \/ ReadHeader
    \/ ParseHeader
    \/ StartBlocks
    \/ NextBlock
    \/ ProcessUncompressedBlock
    \/ DecodeTrees
    \/ ReadToken
    \/ ReadFooter
    \/ ValidateFooter

Spec == Init /\ [][Next]_vars

----------------------------------------------------------------------------
(* Properties of Spec.                                                      *)

\* The CRC-32 of bytes, as its 4 little-endian bytes.
Crc32Of(bytes) == finalize(update(digest, bytes))

\* The member e of log emitted as many bytes as its ISIZE says, and their CRC-32
\* is the one of its trailer.
TrailerMatches(e) ==
    /\ SubSeq(e.trailer, 5, 8) =
           <<Len(e.emitted) % 256, (Len(e.emitted) \div 256) % 256,
             (Len(e.emitted) \div 65536) % 256, 0>>
    /\ SubSeq(e.trailer, 1, 4) = Crc32Of(e.emitted)

\* The members of log lie one after the other in the input and cover it.
MembersCoverInput ==
    /\ \A i \in 1..Len(log) : log[i].start = IF i = 1 THEN 0 ELSE log[i - 1].end
    /\ IF log = <<>> THEN input = <<>> ELSE log[Len(log)].end = Len(input)

\* C1: decompress returns Ok only if the input is a sequence of members each of
\* which emitted, since the reset at its start, as many bytes as its ISIZE and bytes
\* whose CRC-32 is the trailer's; the first member whose trailer mismatches ends
\* decompress with "length check failed" or "crc32 check failed", nothing after that
\* trailer being read.
C1_TrailerChecked ==
    /\ result = "ok" => /\ MembersCoverInput
                        /\ \A i \in 1..Len(log) : TrailerMatches(log[i])
    /\ \A i \in 1..Len(log) :
         ~TrailerMatches(log[i]) =>
            /\ i = Len(log)
            /\ result \in {"length check failed", "crc32 check failed"}
            /\ pc = "done"
            /\ pos = log[i].end

\* Two members were decoded and validated, and decompress returned Ok.
C1_Witness ==
    /\ result = "ok"
    /\ Len(log) = 2
    /\ log[1].emitted # <<>>
    /\ log[2].emitted # <<>>

\* The bytes the member being decoded had emitted before the last turn.
EmittedBefore == Len(last.before) - mark

\* C7: when the blocks of a member are about to be decoded the writer has byte
\* count 0, an empty window and the initial CRC; and a back-reference whose distance
\* exceeds the bytes the member has emitted so far fails, decompress returning that
\* error with nothing copied to the sink.
C7_ResetBetweenMembers ==
    /\ last.op = "start_blocks" =>
          /\ byte_count(tw) = 0
          /\ tw.history = <<>>
          /\ tw.crc32 = digest
    /\ (last.op = "read_token" /\ last.ref # None
            /\ last.ref[1].distance > EmittedBefore) =>
          /\ last.ref[1].st \in DistanceErrors
          /\ result = last.ref[1].st
          /\ tw.inner = last.before

\* A member after the first asked for a back-reference that reaches beyond its own
\* bytes, into bytes an earlier member emitted.
C7_Witness ==
    /\ last.op = "read_token"
    /\ last.ref # None
    /\ log # <<>>
    /\ last.ref[1].distance > EmittedBefore
    /\ last.ref[1].distance <= Len(last.before)

\* C8: when the input ends inside a member, decompress returns an error: it
\* neither returns Ok nor panics.
C8_TruncatedInputIsError ==
    (last.cut_inside /\ pc = "done") => result \notin {"ok", "panic"}

\* The same, but for the panic: a truncated input never makes decompress return Ok.
TruncatedInputNeverOkLemma ==
    (last.cut_inside /\ pc = "done") => result # "ok"

\* C9: at a member boundary decompress returns Ok exactly when no byte is left,
\* and with 10 bytes or more left read_header yields the next 10 bytes and the
\* member is parsed, however many bytes each read of the source returns.
C9_HeaderAtBoundary ==
    last.op = "read_header" =>
        /\ (result = "ok") <=> (last.avail = 0)
        /\ last.avail >= 10 =>
              /\ result = "running"
              /\ pc = "parse_header"
              /\ member.header = SubSeq(input, last.start + 1, last.start + 10)

\* The same for the sources whose read returns all the bytes it can.
ReadHeaderFullReadLemma ==
    (last.op = "read_header" /\ last.size = Min(10, last.avail)) =>
        /\ (result = "ok") <=> (last.avail = 0)
        /\ last.avail >= 10 =>
              /\ result = "running"
              /\ pc = "parse_header"
              /\ member.header = SubSeq(input, last.start + 1, last.start + 10)

\* The bytes of the header that parse_header and read_header consumed before the
\* CRC-16, and the two bytes of the CRC-16, once a header with FHCRC has been read
\* whole.
HeaderRead ==
    /\ last.op = "parse_header"
    /\ bit(member.header[4], FHCRC_OFFSET)
    /\ last.st \in {"ok", "header crc16 check failed"}
HeaderBytes == SubSeq(input, last.start + 1, pos - 2)
StoredCrc16 == SubSeq(input, pos - 1, pos)

\* C10: a header with FHCRC is accepted exactly when its stored CRC-16 is the low
\* 16 bits of the CRC-32 of the header bytes consumed before it, and is rejected
\* with "header crc16 check failed" otherwise.
C10_HeaderCrcOverBytesRead ==
    HeaderRead => ((last.st = "ok") <=> (StoredCrc16 = FirstN(Crc32Of(HeaderBytes), 2)))

\* The same for the headers with neither FNAME nor FCOMMENT.
HeaderCrcWithoutStringsLemma ==
    (HeaderRead /\ ~bit(member.header[4], FNAME_OFFSET)
                /\ ~bit(member.header[4], FCOMMENT_OFFSET)) =>
        ((last.st = "ok") <=> (StoredCrc16 = FirstN(Crc32Of(HeaderBytes), 2)))

----------------------------------------------------------------------------
(* SpecLength: the byte count of a member and its trailer.  A member of      *)
(* 2^32 bytes and more is not decoded byte by byte: the writes of its blocks *)
(* are followed by their sizes alone, and the CRC register is whatever the   *)
(* bytes left it at.  A usize is kept as [hi, lo], lo its low 16 bits and hi *)
(* what is above them; the target has usize of 32 or of 64 bits.            *)

\* The most writes in a member of SpecLength.
MaxWrites == 5

\* The pointer widths of the targets.
UsizeBits == {32, 64}

\* The sizes of one write: a byte, the longest stored block, 2^30 bytes.
WriteSizes == {[hi |-> 0, lo |-> 1], [hi |-> 0, lo |-> 65535], [hi |-> 16384, lo |-> 0]}

\* a += b on usize of `bits` bits: an overflow panics in a build with overflow
\* checks and wraps in one without.
add_assign(a, b, bits, checks) ==
    LET lo == a.lo + b.lo
        hi == a.hi + b.hi + lo \div 65536
    IN  IF bits = 32 /\ hi >= 65536
        THEN IF checks THEN [st |-> "panic", val |-> a]
             ELSE [st |-> "ok", val |-> [hi |-> hi % 65536, lo |-> lo % 65536]]
        ELSE [st |-> "ok", val |-> [hi |-> hi, lo |-> lo % 65536]]

\* u32 as usize
as_usize(v) == [hi |-> v.hi, lo |-> v.lo]

\* The trailers of SpecLength: the CRC-32 of the register reg or another one, and
\* an ISIZE among the counts modulo 2^32 the writes can reach.
Trailers(reg) ==
    {crc \o to_le_bytes([hi |-> h, lo |-> l]) :
        crc \in {finalize(reg), <<1, 2, 3, 4>>}, h \in {0, 1}, l \in {0, 1, 65535}}

\* A member after its header: the writer has been flushed.  member.total is the
\* number of bytes written, member.writes the number of writes.
InitLength ==
    /\ \E reg \in {digest, update(digest, <<0>>)} :
          /\ tw = [inner |-> <<>>, history |-> <<>>, byte_count |-> [hi |-> 0, lo |-> 0],
                   crc32 |-> reg]
          /\ input \in Trailers(reg)
    /\ pos = 0
    /\ bit_seq = BitSequence(0, 0)
    /\ overflow_checks \in BOOLEAN
    /\ mark = 0
    /\ pc = "length_write"
    /\ result = "running"
    /\ \E bits \in UsizeBits :
          member = [usize_bits |-> bits, initial_len |-> [hi |-> 0, lo |-> 0],
                    total |-> [hi |-> 0, lo |-> 0], writes |-> 0, footer |-> None]
    /\ last = [op |-> "new", st |-> "ok"]
    /\ log = <<>>

\* TrackingWriter::write, for its byte_count: self.byte_count += written.
WriteLength ==
    /\ pc = "length_write"
    /\ result = "running"
    /\ member.writes < MaxWrites
    /\ \E written \in WriteSizes :
         \E r \in {add_assign(tw.byte_count, written, member.usize_bits, overflow_checks)} :
            /\ tw' = [tw EXCEPT !.byte_count = r.val]
            /\ member' = [member EXCEPT
                            !.total = [hi |-> member.total.hi + written.hi
                                              + (member.total.lo + written.lo) \div 65536,
                                       lo |-> (member.total.lo + written.lo) % 65536],
                            !.writes = member.writes + 1]
            /\ last' = [op |-> "write", st |-> r.st]
            /\ IF r.st = "panic" THEN Return("panic")
               ELSE pc' = pc /\ result' = result
    /\ UNCHANGED <<input, pos, bit_seq, overflow_checks, mark, log>>

\* parsed.1.read_footer()?, after the last block.
ReadFooterLength ==
    /\ pc = "length_write"
    /\ result = "running"
    /\ \E r \in {read_footer(input, pos)} :
           /\ pos' = r.pos
           /\ member' = [member EXCEPT !.footer = r.footer]
           /\ last' = [op |-> "read_footer", st |-> r.st]
           /\ IF r.st # "ok" THEN Return(r.st)
              ELSE pc' = "length_validate" /\ result' = result
    /\ UNCHANGED <<input, bit_seq, overflow_checks, tw, mark, log>>

\* validate_footer_data: expected_len = initial_len + footer_data.data_size as usize,
\* and the two comparisons.
ValidateLength ==
    /\ pc = "length_validate"
    /\ result = "running"
    /\ \E e \in {add_assign(member.initial_len, as_usize(member.footer[1].data_size),
                            member.usize_bits, overflow_checks)} :
         \E st \in {IF e.st = "panic" THEN "panic"
                    ELSE validate_footer_check(tw.byte_count, e.val,
                                               member.footer[1].data_crc32,
                                               u32_from_le_bytes(crc32(tw)))} :
            /\ last' = [op |-> "validate_footer_data", st |-> st]
            /\ Return(st)
    /\ UNCHANGED <<input, pos, bit_seq, overflow_checks, tw, mark, member, log>>

NextLength == WriteLength \/ ReadFooterLength \/ ValidateLength

SpecLength == InitLength /\ [][NextLength]_vars

\* The member's length modulo 2^32.
TotalMod32 == [hi |-> member.total.hi % 65536, lo |-> member.total.lo]

\* C11: the length check compares the byte count modulo 2^32 with ISIZE: a member
\* of 2^32 bytes or more whose trailer has ISIZE = length mod 2^32 and the CRC-32
\* of its bytes passes the length check, and so the whole validation.
C11_LengthModulo32 ==
    (/\ pc = "done"
     /\ member.total.hi >= 65536
     /\ member.footer # None
     /\ member.footer[1].data_size = TotalMod32
     /\ member.footer[1].data_crc32 = u32_from_le_bytes(crc32(tw)))
        => result = "ok"

\* The same for the members of less than 2^32 bytes, where the length check fails
\* exactly when ISIZE is not the length.
LengthBelowWrapLemma ==
    (last.op = "validate_footer_data" /\ member.total.hi < 65536)
        => ((result = "length check failed") <=> (member.footer[1].data_size # TotalMod32))

----------------------------------------------------------------------------
(* SpecBoundary: a BitReader whose byte source is borrowed back at a byte   *)
(* boundary and read byte by byte, as process_uncompressed_block and the    *)
(* unit test borrow_reader_from_boundary do.                                *)
(*                                                                          *)
(* Ghosts in last: base is the position of the source at the last boundary  *)
(* (or byte read), bits the number of bits read_bits has returned since,    *)
(* fresh the index of the first byte of the stream, when the operation      *)
(* began, from which no bit had been returned and which no byte read had    *)
(* returned; failed tells that some read_bits met the end of the stream.    *)
(* mark is the number of residual bits the last borrow dropped.             *)

\* The first byte from which nothing has been returned yet.
FirstFresh == last.base + (last.bits + 7) \div 8

\* The lengths asked of read_bits in SpecBoundary: none, the ones that fetch one
\* byte, the ones that fetch two, and all 16 bits.
BoundaryLens == {0, 1, 3, 5, 8, 9, 13, 16}

InitBoundary ==
    /\ input \in SeqsUpTo(SampleBytes, MaxStreamLen)
    /\ pos = 0
    /\ bit_seq = BitSequence(0, 0)
    /\ overflow_checks \in BOOLEAN
    /\ tw = NoWriter
    /\ mark = 0
    /\ pc = "bits"
    /\ result = "running"
    /\ member = NoMember
    /\ last = [op |-> "new", len |-> 0, st |-> "ok", val |-> 0, base |-> 0, bits |-> 0,
               fresh |-> 0, failed |-> FALSE]
    /\ log = <<>>

\* reader.read_bits(len)
ReadBitsBoundary ==
    /\ pc \in {"bits", "bytes"}
    /\ result = "running"
    /\ \E len \in BoundaryLens :
         \E r \in {read_bits(input, pos, bit_seq, len, overflow_checks)} :
            /\ bit_seq' = r.bit_seq
            /\ pos' = r.pos
            /\ pc' = "bits"
            /\ result' = IF r.st = "panic" THEN "panic" ELSE result
            /\ last' = [op |-> "read_bits", len |-> len, st |-> r.st, val |-> r.val.bits,
                        base |-> last.base,
                        bits |-> IF r.st = "ok" THEN last.bits + len ELSE last.bits,
                        fresh |-> FirstFresh,
                        failed |-> last.failed \/ r.st = "eof"]
    /\ UNCHANGED <<input, overflow_checks, tw, mark, member, log>>

\* reader.borrow_reader_from_boundary()
BorrowReader ==
    /\ pc = "bits"
    /\ result = "running"
    /\ bit_seq' = borrow_reader_from_boundary
    /\ mark' = bit_seq.len
    /\ pc' = "bytes"
    /\ last' = [op |-> "borrow", len |-> 0, st |-> "ok", val |-> 0, base |-> pos,
                bits |-> 0, fresh |-> FirstFresh, failed |-> last.failed]
    /\ UNCHANGED <<input, pos, overflow_checks, tw, result, member, log>>

\* read_u8() on the borrowed reader.
ReadU8 ==
    /\ pc = "bytes"
    /\ result = "running"
    /\ \E r \in {read_exact(input, pos, 1)} :
          /\ pos' = r.pos
          /\ last' = [op |-> "read_u8", len |-> 0, st |-> IF r.ok THEN "ok" ELSE "eof",
                      val |-> IF r.ok THEN r.buf[1] ELSE 0, base |-> r.pos, bits |-> 0,
                      fresh |-> FirstFresh, failed |-> last.failed]
    /\ UNCHANGED <<input, bit_seq, overflow_checks, tw, mark, pc, result, member, log>>

NextBoundary == ReadBitsBoundary \/ BorrowReader \/ ReadU8

SpecBoundary == InitBoundary /\ [][NextBoundary]_vars

\* What C12 says of the last operation.
BoundaryKept ==
    /\ last.op = "borrow" =>
          /\ mark < 8
          /\ bit_seq = BitSequence(0, 0)
          /\ pos = last.fresh
    /\ last.op = "read_u8" =>
          IF last.fresh < Len(input)
          THEN last.st = "ok" /\ last.val = input[last.fresh + 1] /\ pos = last.fresh + 1
          ELSE last.st = "eof"
    /\ (last.op = "read_bits" /\ last.st = "ok" /\ last.bits = last.len) =>
          last.val = StreamBits(input, 8 * last.base, last.len)

----------------------------------------------------------------------------
(* SpecHuffman: HuffmanCoding::<Value>::from_lengths on an array of code    *)
(* lengths, then read_symbol on a BitReader over a byte stream, as the unit *)
(* tests from_lengths and read_symbol do.  member.code_lengths is the       *)
(* array, member.coding what from_lengths returned, member.sent the symbols *)
(* whose codes the stream was made of (none for the other streams),         *)
(* member.reads the number of read_symbol calls so far.                     *)

\* The most symbols in the arrays of code lengths that are enumerated, and the
\* longest length in them.
MaxSymbols == 3
MaxLength == 3

\* Arrays with lengths up to MAX_BITS and beyond: the complete code of lengths
\* 1, 2, .., 14, 15, 15, one over-subscribed at 15 bits, and lengths above MAX_BITS.
LongLengths ==
    {<<1, 2, 3, 4, 5, 6, 7, 8, 9, 10, 11, 12, 13, 14, 15, 15>>,
     <<1, 15, 15, 15>>, <<16>>, <<1, 1, 16>>, <<255, 1>>}

CodeLengthArrays == SeqsUpTo(0..MaxLength, MaxSymbols) \cup LongLengths

\* The symbols of code_lengths that have a code.
Coded(code_lengths) == {i \in 0..(Len(code_lengths) - 1) : code_lengths[i + 1] > 0}

\* The Kraft sum of code_lengths, in units of 2^-MaxKraftBits.
MaxKraftBits == MAX_BITS + 1
RECURSIVE KraftSum(_)
KraftSum(code_lengths) ==
    IF code_lengths = <<>> THEN 0
    ELSE (IF Head(code_lengths) = 0 \/ Head(code_lengths) > MaxKraftBits THEN 0
          ELSE 2 ^ (MaxKraftBits - Head(code_lengths)))
         + KraftSum(Tail(code_lengths))

\* A complete prefix code: lengths at most MAX_BITS and Kraft sum exactly 1.
Complete(code_lengths) ==
    /\ \A i \in 1..Len(code_lengths) : code_lengths[i] <= MAX_BITS
    /\ KraftSum(code_lengths) = 2 ^ MaxKraftBits

\* More codes than the lengths leave room for.
OverSubscribed(code_lengths) == KraftSum(code_lengths) > 2 ^ MaxKraftBits

\* The canonical code of symbol i (RFC 1951, 3.2.2): the codes of a length are
\* consecutive in symbol order, and follow the codes of the shorter lengths.
RECURSIVE ShorterCodes(_, _, _)
ShorterCodes(code_lengths, len, j) ==
    IF j > Len(code_lengths) THEN 0
    ELSE (IF code_lengths[j] > 0 /\ code_lengths[j] < len
          THEN 2 ^ (len - code_lengths[j]) ELSE 0)
         + ShorterCodes(code_lengths, len, j + 1)

CanonicalCode(code_lengths, i) ==
    ShorterCodes(code_lengths, code_lengths[i + 1], 1)
      + Cardinality({j \in 0..(i - 1) : code_lengths[j + 1] = code_lengths[i + 1]})

\* The bits of the canonical codes of the symbols `sent`, each code from its most
\* significant bit on.
RECURSIVE CodeBits(_, _)
CodeBits(code_lengths, sent) ==
    IF sent = <<>> THEN <<>>
    ELSE [k \in 1..code_lengths[Head(sent) + 1] |->
              BitAt(CanonicalCode(code_lengths, Head(sent)),
                    code_lengths[Head(sent) + 1] - k)]
         \o CodeBits(code_lengths, Tail(sent))

\* The bytes that carry `bits`, bit 0 of each byte first, padded with `pad`.
RECURSIVE PackBits(_, _)
PackBits(bits, pad) ==
    IF bits = <<>> THEN <<>>
    ELSE LET b == [k \in 1..8 |-> IF k <= Len(bits) THEN bits[k] ELSE pad]
         IN  <<b[1] + 2 * b[2] + 4 * b[3] + 8 * b[4] + 16 * b[5] + 32 * b[6] + 64 * b[7]
                 + 128 * b[8]>>
             \o PackBits(SubSeq(bits, 9, Len(bits)), pad)

\* The streams with no code in mind.
PlainStreams == {<<>>, <<0>>, <<255>>, <<99, 255>>, <<0, 0, 0>>, <<255, 255, 255>>}

\* The sequences of one or two symbols that have a code of at most MAX_BITS bits.
Sendable(code_lengths) ==
    LET S == {i \in Coded(code_lengths) : code_lengths[i + 1] <= MAX_BITS}
    IN  {<<i>> : i \in S} \cup {<<i, j>> : i \in S, j \in S}

InitHuffman ==
    /\ \E code_lengths \in CodeLengthArrays :
          \/ /\ input \in PlainStreams
             /\ member = [code_lengths |-> code_lengths, coding |-> None, sent |-> <<>>,
                          reads |-> 0]
          \/ \E sent \in Sendable(code_lengths), pad \in {0, 1} :
               /\ input = PackBits(CodeBits(code_lengths, sent), pad)
               /\ member = [code_lengths |-> code_lengths, coding |-> None,
                            sent |-> sent, reads |-> 0]
    /\ pos = 0
    /\ bit_seq = BitSequence(0, 0)
    /\ overflow_checks \in BOOLEAN
    /\ tw = NoWriter
    /\ mark = 0
    /\ pc = "from_lengths"
    /\ result = "running"
    /\ last = [op |-> "new", st |-> "ok", val |-> None, from |-> 0]
    /\ log = <<>>

\* HuffmanCoding::<Value>::from_lengths(&code_lengths)
FromLengths ==
    /\ pc = "from_lengths"
    /\ result = "running"
    /\ \E r \in {from_lengths(member.code_lengths, "Value", overflow_checks)} :
          /\ member' = [member EXCEPT !.coding = Some(r.map)]
          /\ last' = [op |-> "from_lengths", st |-> r.st, val |-> None, from |-> 0]
          /\ IF r.st = "ok" THEN pc' = "read_symbol" /\ result' = result
             ELSE Return(r.st)
    /\ UNCHANGED <<input, pos, bit_seq, overflow_checks, tw, mark, log>>

\* code.read_symbol(&mut reader).  last.from is the bit of the stream the call
\* starts at.
ReadSymbol ==
    /\ pc = "read_symbol"
    /\ result = "running"
    /\ \E r \in {read_symbol(member.coding[1], input, pos, bit_seq, overflow_checks)} :
          /\ pos' = r.pos
          /\ bit_seq' = r.bit_seq
          /\ member' = [member EXCEPT !.reads = member.reads + 1]
          /\ last' = [op |-> "read_symbol", st |-> r.st, val |-> r.val,
                      from |-> 8 * pos - bit_seq.len]
          /\ IF r.st = "ok" THEN pc' = pc /\ result' = result
             ELSE Return(r.st)
    /\ UNCHANGED <<input, overflow_checks, tw, mark, log>>

NextHuffman == FromLengths \/ ReadSymbol

SpecHuffman == InitHuffman /\ [][NextHuffman]_vars

\* The bits of the stream the reader has handed out.
BitsTaken == 8 * pos - bit_seq.len

\* The BitSequence of the canonical code of symbol i.
CodeOf(i) == BitSequence(CanonicalCode(member.code_lengths, i), member.code_lengths[i + 1])

\* C13: for a complete prefix code from_lengths gives every symbol its canonical
\* code, the codes in ascending (length, symbol) order and no two symbols sharing
\* one, and read_symbol on a stream that carries a symbol's code, most significant
\* bit first, returns that symbol and takes exactly the bits of the code.
C13_CompleteCodeRoundTrip ==
    (Complete(member.code_lengths) /\ member.coding # None) =>
        /\ last.op = "from_lengths" => last.st = "ok"
        /\ Cardinality(DOMAIN member.coding[1]) = Cardinality(Coded(member.code_lengths))
        /\ \A i \in Coded(member.code_lengths) :
              /\ CodeOf(i) \in DOMAIN member.coding[1]
              /\ member.coding[1][CodeOf(i)] = i
        /\ (last.op = "read_symbol" /\ member.reads <= Len(member.sent)) =>
              /\ last.st = "ok"
              /\ last.val = member.sent[member.reads]
              /\ BitsTaken - last.from = member.code_lengths[member.sent[member.reads] + 1]

\* Two symbols of a complete code were sent and read back, the second one with a
\* code longer than the first.
C13_Witness ==
    /\ Complete(member.code_lengths)
    /\ last.op = "read_symbol"
    /\ member.reads = 2
    /\ Len(member.sent) = 2
    /\ last.st = "ok"
    /\ member.code_lengths[member.sent[2] + 1] > member.code_lengths[member.sent[1] + 1]

\* C14: from_lengths returns an error and builds no table when the array is
\* over-subscribed (a code would not fit its length, or two symbols would get the
\* same code) or has a length above 15.
C14_InconsistentLengthsRejected ==
    (/\ last.op = "from_lengths"
     /\ \/ OverSubscribed(member.code_lengths)
        \/ \E i \in 1..Len(member.code_lengths) : member.code_lengths[i] > MAX_BITS)
        => /\ last.st \notin {"ok", "panic"}
           /\ result = last.st
           /\ member.coding[1] = EmptyMap

\* The arrays with lengths up to 15 that are not over-subscribed are accepted,
\* every symbol with a code of its own.
FromLengthsAcceptsConsistentLemma ==
    (/\ last.op = "from_lengths"
     /\ ~OverSubscribed(member.code_lengths)
     /\ \A i \in 1..Len(member.code_lengths) : member.code_lengths[i] <= MAX_BITS)
        => /\ last.st = "ok"
           /\ Cardinality(DOMAIN member.coding[1]) = Cardinality(Coded(member.code_lengths))

\* C15: read_symbol returns a symbol or an error and never panics; it returns an
\* error when the stream ends inside a code, and after at most 15 bits when the
\* bits read match no code.
C15_ReadSymbolNeverPanics ==
    last.op = "read_symbol" =>
        /\ last.st # "panic"
        /\ BitsTaken - last.from <= MAX_BITS

\* The same without the cap: read_symbol returns a symbol after as many bits as its
\* code has, or "couldn't read" at the end of the stream, or it panics on its 17th
\* bit.
ReadSymbolOutcomesLemma ==
    last.op = "read_symbol" =>
        \/ /\ last.st = "ok"
           /\ BitsTaken - last.from <= 16
        \/ /\ last.st = "couldn't read"
           /\ pos = Len(input) /\ bit_seq.len = 0
           /\ BitsTaken - last.from <= 16
        \/ /\ last.st = "panic"
           /\ BitsTaken - last.from = 17

----------------------------------------------------------------------------
(* SpecTrees: the header of a dynamic block.  The input is the block header *)
(* (BFINAL = 1, BTYPE = 10), HLIT, HDIST, HCLEN, the lengths of the         *)
(* code-length code and the code-length symbols of a sample, followed by    *)
(* bytes 0xFF, whole or cut.  A sample is given by its symbols, each with   *)
(* the value of its extra bits; last.sample keeps it.                       *)

\* The code-length code of the samples: lengths 3 for the symbols 1 and 2, and 2
\* for 16, 17 and 18 (entry s + 1 is the length of symbol s).
SampleCodeLengths == <<0, 3, 3, 0, 0, 0, 0, 0, 0, 0, 0, 0, 0, 0, 0, 0, 2, 2, 2>>

\* 255 zeros, a length 1 for symbol 255, a run of 3 zeros that covers symbol 256
\* and the first two of the 4 distance lengths, then two lengths 1.
ZerosAcross ==
    [hlit |-> 0, hdist |-> 3,
     syms |-> << <<18, 127>>, <<18, 106>>, <<1, 0>>, <<17, 0>>, <<1, 0>>, <<1, 0>> >>]

\* 254 zeros, a length 2 for symbol 254, a copy of it 3 times that covers the
\* symbols 255 and 256 and the first of the 2 distance lengths, then a length 2.
CopyAcross ==
    [hlit |-> 0, hdist |-> 1,
     syms |-> << <<18, 127>>, <<18, 105>>, <<2, 0>>, <<16, 0>>, <<2, 0>> >>]

\* No run across the two parts: 97 zeros, a length 2 for symbol 97, 158 zeros,
\* length 2 for symbol 256 and 1 for 257, and one distance length 1.
NoRunAcross ==
    [hlit |-> 1, hdist |-> 0,
     syms |-> << <<18, 86>>, <<2, 0>>, <<18, 127>>, <<18, 9>>, <<2, 0>>, <<1, 0>>,
                 <<1, 0>> >>]

\* A copy within the literal/length part: 253 zeros, a length 2 for symbol 253
\* and 3 copies of it for the symbols 254 to 256, and one distance length 1.
CopyWithin ==
    [hlit |-> 0, hdist |-> 0,
     syms |-> << <<18, 127>>, <<18, 104>>, <<2, 0>>, <<16, 0>>, <<1, 0>> >>]

\* The first symbol is 16: a copy with no length before it.
CopyFirst ==
    [hlit |-> 0, hdist |-> 0,
     syms |-> << <<16, 0>>, <<18, 127>>, <<18, 104>>, <<1, 0>>, <<1, 0>> >>]

\* The first symbol of the distance part is 16: 255 zeros, length 2 for the
\* symbols 255 and 256, and 3 distance lengths that copy the last length.
CopyStartsDistances ==
    [hlit |-> 0, hdist |-> 2,
     syms |-> << <<18, 127>>, <<18, 106>>, <<2, 0>>, <<2, 0>>, <<16, 0>> >>]

TreeSamples ==
    {ZerosAcross, CopyAcross, NoRunAcross, CopyWithin, CopyFirst, CopyStartsDistances}

\* The n low bits of x, the lowest first.
LowBits(x, n) == [k \in 1..n |-> BitAt(x, k - 1)]

\* The extra bits that follow a code-length symbol.
ExtraBits(symbol) ==
    IF symbol = 16 THEN 2 ELSE IF symbol = 17 THEN 3 ELSE IF symbol = 18 THEN 7 ELSE 0

\* The bits of the symbols of a sample: the code of each, its most significant bit
\* first, and its extra bits.
RECURSIVE SymbolBits(_)
SymbolBits(syms) ==
    IF syms = <<>> THEN <<>>
    ELSE CodeBits(SampleCodeLengths, <<Head(syms)[1]>>)
         \o LowBits(Head(syms)[2], ExtraBits(Head(syms)[1]))
         \o SymbolBits(Tail(syms))

\* The 19 lengths of the code-length code, 3 bits each, in the order of the format.
RECURSIVE OrderedLengthBits(_)
OrderedLengthBits(num) ==
    IF num > Len(CodeLengthOrder) THEN <<>>
    ELSE LowBits(SampleCodeLengths[CodeLengthOrder[num] + 1], 3) \o OrderedLengthBits(num + 1)

\* The bits of a sample, from BFINAL to its last symbol.
SampleBits(sample) ==
    <<1, 0, 1>> \o LowBits(sample.hlit, 5) \o LowBits(sample.hdist, 5) \o LowBits(15, 4)
    \o OrderedLengthBits(1) \o SymbolBits(sample.syms)

\* The lengths the symbols stand for, as one sequence (RFC 1951, 3.2.7); <<-1>> when
\* a copy has no length before it.
RECURSIVE Expand(_, _)
Expand(syms, acc) ==
    IF syms = <<>> \/ acc = <<-1>> THEN acc
    ELSE LET symbol == Head(syms)[1]
             extra  == Head(syms)[2]
         IN  Expand(Tail(syms),
                    IF symbol <= 15 THEN Append(acc, symbol)
                    ELSE IF symbol = 16 THEN
                        (IF acc = <<>> THEN <<-1>>
                         ELSE acc \o Repeat(acc[Len(acc)], 3 + extra))
                    ELSE IF symbol = 17 THEN acc \o Repeat(0, 3 + extra)
                    ELSE acc \o Repeat(0, 11 + extra))

\* The input is a sample, followed by two bytes 0xFF, whole or cut.
InitTrees ==
    /\ \E sample \in TreeSamples :
         \E k \in 1..(Len(PackBits(SampleBits(sample), 1)) + 2) :
            /\ input = FirstN(PackBits(SampleBits(sample), 1) \o <<255, 255>>, k)
            /\ last = [op |-> "new", st |-> "ok", sample |-> sample, before |-> <<>>,
                       cut_inside |-> 8 * k < Len(SampleBits(sample))]
    /\ pos = 0
    /\ bit_seq = BitSequence(0, 0)
    /\ overflow_checks \in BOOLEAN
    /\ tw = TrackingWriter(<<>>)
    /\ mark = 0
    /\ pc = "next_block"
    /\ result = "running"
    /\ member = NoLocals
    /\ log = <<>>

NextTrees == NextBlock \/ DecodeTrees

SpecTrees == InitTrees /\ [][NextTrees]_vars

\* decode_litlen_distance_trees has run on a sample that was not cut.
TreesDecoded == last.op = "decode_litlen_distance_trees" /\ ~last.cut_inside

\* The lengths of the sample as one sequence, and its two parts.
SampleLengths == Expand(last.sample.syms, <<>>)
LitLenLengths == SubSeq(SampleLengths, 1, last.sample.hlit + 257)
DistanceLengths ==
    SubSeq(SampleLengths, last.sample.hlit + 258,
           last.sample.hlit + 257 + last.sample.hdist + 1)

\* The trees are the ones of the lengths of the sample, split after HLIT + 257, and
\* no bit after the last symbol of the sample was read.
TreesOfSample ==
    /\ last.st = "ok"
    /\ member.lit_length = from_lengths(LitLenLengths, "LitLenToken", overflow_checks).map
    /\ member.dist = from_lengths(DistanceLengths, "DistanceToken", overflow_checks).map
    /\ BitsTaken = Len(SampleBits(last.sample))

\* C16: decode_litlen_distance_trees produces HLIT + 257 literal/length lengths and
\* then HDIST + 1 distance lengths as one sequence: a run that overruns the first
\* part goes on in the second, and no symbol is read once all the lengths are there.
C16_LengthsAreOneSequence ==
    (TreesDecoded /\ SampleLengths # <<-1>>) => TreesOfSample

\* The same for the samples none of whose runs crosses from one part to the other,
\* and whose distance part does not start with a copy.
TreesWithoutRunAcrossLemma ==
    (TreesDecoded /\ last.sample \in {NoRunAcross, CopyWithin}) => TreesOfSample

\* C17: symbol 16 repeats the length produced last in the whole sequence, 3 + (2
\* extra bits) times, and the decoding fails with an error when symbol 16 comes
\* before any length.
C17_CopyPreviousLength ==
    TreesDecoded =>
        IF SampleLengths = <<-1>> THEN last.st \notin {"ok", "panic"} /\ result = last.st
        ELSE (\E i \in 1..Len(last.sample.syms) : last.sample.syms[i][1] = 16)
                => TreesOfSample

\* The same for a copy inside the literal/length part.
CopyWithinPartLemma ==
    (TreesDecoded /\ last.sample = CopyWithin) => TreesOfSample

----------------------------------------------------------------------------
(* More properties of Spec.                                                 *)

\* The index (from 1) of the first zero byte of input after the first `at` bytes,
\* 0 when there is none.
FirstZeroAfter(at) ==
    IF \E j \in (at + 1)..Len(input) : input[j] = 0
    THEN CHOOSE j \in (at + 1)..Len(input) :
            input[j] = 0 /\ \A k \in (at + 1)..(j - 1) : input[k] # 0
    ELSE 0

\* parse_header accepted a header with FNAME and without FEXTRA whose name has its
\* terminator (and whose comment has, with FCOMMENT).
NameEnd == FirstZeroAfter(last.start + 10)
CommentEnd == FirstZeroAfter(NameEnd)
NameParsed ==
    /\ last.op = "parse_header"
    /\ last.st = "ok"
    /\ bit(member.header[4], FNAME_OFFSET)
    /\ ~bit(member.header[4], FEXTRA_OFFSET)
    /\ NameEnd # 0
    /\ bit(member.header[4], FCOMMENT_OFFSET) => CommentEnd # 0

\* The bytes parse_header has consumed when the strings and the CRC-16 are read.
StringsEnd ==
    (IF bit(member.header[4], FCOMMENT_OFFSET) THEN CommentEnd ELSE NameEnd)
      + (IF bit(member.header[4], FHCRC_OFFSET) THEN 2 ELSE 0)

\* C18: with FNAME (FCOMMENT) parse_header consumes the bytes up to and including
\* the first zero byte, and the name (comment) of the MemberHeader is the bytes
\* before that zero, the zero left out.
C18_NameExcludesTerminator ==
    NameParsed =>
        /\ pos = StringsEnd
        /\ member.parsed[1].name = Some(SubSeq(input, last.start + 11, NameEnd - 1))
        /\ bit(member.header[4], FCOMMENT_OFFSET) =>
              member.parsed[1].comment = Some(SubSeq(input, NameEnd + 1, CommentEnd - 1))

\* What holds instead: the strings are consumed up to and including their zero,
\* and the zero is kept at the end of the name (comment).
NameKeepsTerminatorLemma ==
    NameParsed =>
        /\ pos = StringsEnd
        /\ member.parsed[1].name = Some(SubSeq(input, last.start + 11, NameEnd))
        /\ bit(member.header[4], FCOMMENT_OFFSET) =>
              member.parsed[1].comment = Some(SubSeq(input, NameEnd + 1, CommentEnd))

\* next_block returned the header of a block that is neither stored nor dynamic.
OtherBlockType ==
    /\ last.op = "next_block"
    /\ last.st = "ok"
    /\ member.block_hdr[1].compression_type \in {"Reserved", "FixedTree"}

\* C19: a block with BTYPE = 11 fails with the reserved-block-type error and one
\* with BTYPE = 01 with the unsupported-block-type error, right after the 3 bits of
\* the block header and with no byte written to the sink for the block, and
\* decompress returns that error.
C19_BlockTypeErrors ==
    OtherBlockType =>
        /\ result = IF member.block_hdr[1].compression_type = "Reserved"
                    THEN "reserved block type" ELSE "unsupported block type"
        /\ pc = "done"
        /\ bit_seq.len = 5
        /\ tw.inner = last.before

\* The same with one error for the two block types.
OtherBlockTypesRejectedLemma ==
    OtherBlockType =>
        /\ result = "unsupported block type"
        /\ pc = "done"
        /\ bit_seq.len = 5
        /\ tw.inner = last.before
=============================================================================
